---------------------------- MODULE Spec2Model ----------------------------
(***************************************************************************)
(* A model of the Gaussian-splat PLY loader of gs_navsim                   *)
(* (gaussian-splat-loader.js, kept as src/unnamed/part_004).               *)
(*                                                                         *)
(* A file is a sequence of bytes (0..255).  Text is a sequence of Unicode  *)
(* code points; a JavaScript string that may be undefined is the record    *)
(* [u |-> BOOLEAN, s |-> text].  A JavaScript number is a term: a value    *)
(* read from the file keeps its type and its bytes in significance order,  *)
(* a literal of the source keeps its text, and the results of Math.exp and *)
(* of the arithmetic are terms over these, with the IEEE-754 special       *)
(* cases (NaN, zero, underflow, overflow) computed.                        *)
(***************************************************************************)
EXTENDS Integers, Sequences, FiniteSets, TLC

(***************************************************************************)
(* Words of the PLY vocabulary, as code points.                            *)
(***************************************************************************)
S_ply == <<112, 108, 121>>  \* "ply"
S_end_header == <<101, 110, 100, 95, 104, 101, 97, 100, 101, 114>>  \* "end_header"
S_format == <<102, 111, 114, 109, 97, 116>>  \* "format"
S_element == <<101, 108, 101, 109, 101, 110, 116>>  \* "element"
S_vertex == <<118, 101, 114, 116, 101, 120>>  \* "vertex"
S_property == <<112, 114, 111, 112, 101, 114, 116, 121>>  \* "property"
S_ascii == <<97, 115, 99, 105, 105>>  \* "ascii"
S_binary_little_endian == <<98, 105, 110, 97, 114, 121, 95, 108, 105, 116, 116, 108, 101, 95, 101, 110, 100, 105, 97, 110>>  \* "binary_little_endian"
S_binary_big_endian == <<98, 105, 110, 97, 114, 121, 95, 98, 105, 103, 95, 101, 110, 100, 105, 97, 110>>  \* "binary_big_endian"
S_vertexSize == <<118, 101, 114, 116, 101, 120, 83, 105, 122, 101>>  \* "vertexSize"
S_undefined == <<117, 110, 100, 101, 102, 105, 110, 101, 100>>  \* "undefined"
S_float == <<102, 108, 111, 97, 116>>  \* "float"
S_double == <<100, 111, 117, 98, 108, 101>>  \* "double"
S_int == <<105, 110, 116>>  \* "int"
S_uint == <<117, 105, 110, 116>>  \* "uint"
S_short == <<115, 104, 111, 114, 116>>  \* "short"
S_ushort == <<117, 115, 104, 111, 114, 116>>  \* "ushort"
S_char == <<99, 104, 97, 114>>  \* "char"
S_uchar == <<117, 99, 104, 97, 114>>  \* "uchar"
S_list == <<108, 105, 115, 116>>  \* "list"
S_face == <<102, 97, 99, 101>>  \* "face"
S_comment == <<99, 111, 109, 109, 101, 110, 116>>  \* "comment"
S_vertex_indices == <<118, 101, 114, 116, 101, 120, 95, 105, 110, 100, 105, 99, 101, 115>>  \* "vertex_indices"
S_1_0 == <<49, 46, 48>>  \* "1.0"
S_half == <<104, 97, 108, 102>>  \* "half"
S_junk == <<106, 117, 110, 107>>  \* "junk"
S_x == <<120>>  \* "x"
S_nx == <<110, 120>>  \* "nx"
S_ny == <<110, 121>>  \* "ny"
S_nz == <<110, 122>>  \* "nz"
S_y == <<121>>  \* "y"
S_z == <<122>>  \* "z"
S_scale_0 == <<115, 99, 97, 108, 101, 95, 48>>  \* "scale_0"
S_scale_1 == <<115, 99, 97, 108, 101, 95, 49>>  \* "scale_1"
S_scale_2 == <<115, 99, 97, 108, 101, 95, 50>>  \* "scale_2"
S_scale_x == <<115, 99, 97, 108, 101, 95, 120>>  \* "scale_x"
S_scale_y == <<115, 99, 97, 108, 101, 95, 121>>  \* "scale_y"
S_scale_z == <<115, 99, 97, 108, 101, 95, 122>>  \* "scale_z"
S_rot_0 == <<114, 111, 116, 95, 48>>  \* "rot_0"
S_rot_1 == <<114, 111, 116, 95, 49>>  \* "rot_1"
S_rot_2 == <<114, 111, 116, 95, 50>>  \* "rot_2"
S_rot_3 == <<114, 111, 116, 95, 51>>  \* "rot_3"
S_opacity == <<111, 112, 97, 99, 105, 116, 121>>  \* "opacity"
S_alpha == <<97, 108, 112, 104, 97>>  \* "alpha"
S_f_dc_0 == <<102, 95, 100, 99, 95, 48>>  \* "f_dc_0"
S_f_dc_1 == <<102, 95, 100, 99, 95, 49>>  \* "f_dc_1"
S_f_dc_2 == <<102, 95, 100, 99, 95, 50>>  \* "f_dc_2"
S_f_rest_ == <<102, 95, 114, 101, 115, 116, 95>>  \* "f_rest_"
S_red == <<114, 101, 100>>  \* "red"
S_green == <<103, 114, 101, 101, 110>>  \* "green"
S_blue == <<98, 108, 117, 101>>  \* "blue"
S_r == <<114>>  \* "r"
S_g == <<103>>  \* "g"
S_b == <<98>>  \* "b"

LF == 10
CR == 13
SP == 32

(***************************************************************************)
(* JavaScript strings that may be undefined.                               *)
(***************************************************************************)
Str(s) == [u |-> FALSE, s |-> s]
StrUndefined == [u |-> TRUE, s |-> <<>>]
\* String(v): the property key a value turns into
KeyOf(v) == IF v.u THEN S_undefined ELSE v.s

(***************************************************************************)
(* new TextDecoder().decode(buffer): the WHATWG UTF-8 decoder, errors      *)
(* replaced by U+FFFD, a leading byte order mark dropped.  A first byte    *)
(* (194..244) always starts a sequence; the bytes after it that are valid  *)
(* continuations of it are consumed with it; the sequence gives its code   *)
(* point when complete and U+FFFD when cut short; any other byte above 127 *)
(* gives U+FFFD.                                                           *)
(***************************************************************************)
REPLACEMENT == 65533
BOM == 65279

IsFirstByte(b) == b >= 194 /\ b <= 244
Needed(b) == IF b <= 223 THEN 1 ELSE IF b <= 239 THEN 2 ELSE 3

\* is bytes[j + d] a valid d-th continuation of the first byte bytes[j]
ValidContinuation(bytes, j, d) ==
  /\ j + d <= Len(bytes)
  /\ LET f == bytes[j]
         c == bytes[j + d]
         lower == IF d = 1 /\ f = 224 THEN 160 ELSE IF d = 1 /\ f = 240 THEN 144 ELSE 128
         upper == IF d = 1 /\ f = 237 THEN 159 ELSE IF d = 1 /\ f = 244 THEN 143 ELSE 191
     IN c >= lower /\ c <= upper

\* how many bytes after the first byte bytes[j] the decoder consumes with it
Consumed(bytes, j) ==
  IF ~ValidContinuation(bytes, j, 1) THEN 0
  ELSE IF Needed(bytes[j]) = 1 \/ ~ValidContinuation(bytes, j, 2) THEN 1
  ELSE IF Needed(bytes[j]) = 2 \/ ~ValidContinuation(bytes, j, 3) THEN 2
  ELSE 3

\* the positions consumed as continuation bytes
ContinuationPositions(bytes) ==
  { i \in 1..Len(bytes) :
      \E j \in (i - 3)..(i - 1) :
        j >= 1 /\ IsFirstByte(bytes[j]) /\ i - j <= Consumed(bytes, j) }

\* the code point the decoder emits at position i, not a continuation position
CodePointAt(bytes, i) ==
  LET f == bytes[i] IN
  IF f <= 127 THEN f
  ELSE IF ~IsFirstByte(f) \/ Consumed(bytes, i) < Needed(f) THEN REPLACEMENT
  ELSE IF Needed(f) = 1 THEN (f % 32) * 64 + (bytes[i + 1] % 64)
  ELSE IF Needed(f) = 2
       THEN ((f % 16) * 64 + (bytes[i + 1] % 64)) * 64 + (bytes[i + 2] % 64)
  ELSE (((f % 8) * 64 + (bytes[i + 1] % 64)) * 64 + (bytes[i + 2] % 64)) * 64
       + (bytes[i + 3] % 64)

\* the k-th position of 1..n that is not in the set `out`
KthOutside(out, k) ==
  CHOOSE i \in k..(k + Cardinality(out)) :
    i \notin out /\ i - Cardinality({c \in out : c < i}) = k

TextDecode(bytes) ==
  LET cont == ContinuationPositions(bytes)
      t == [k \in 1..(Len(bytes) - Cardinality(cont)) |->
              CodePointAt(bytes, KthOutside(cont, k))]
  IN IF Len(t) > 0 /\ t[1] = BOM THEN Tail(t) ELSE t

\* new TextEncoder().encode(text).length: 1 to 4 bytes for a code point
TextEncodeLength(text) ==
  Len(text) + Cardinality({i \in 1..Len(text) : text[i] >= 128})
            + Cardinality({i \in 1..Len(text) : text[i] >= 2048})
            + Cardinality({i \in 1..Len(text) : text[i] >= 65536})

(***************************************************************************)
(* String.prototype.split(separator) and trim().                           *)
(***************************************************************************)
\* the k-th smallest member of a set of positions
KthOf(positions, k) ==
  CHOOSE i \in positions : Cardinality({j \in positions : j <= i}) = k

\* the pieces of text between the positions in `seps`, empty pieces kept
Pieces(text, seps) ==
  LET n == Cardinality(seps)
      first(k) == IF k = 1 THEN 1 ELSE KthOf(seps, k - 1) + 1
      last(k) == IF k = n + 1 THEN Len(text) ELSE KthOf(seps, k) - 1
  IN [k \in 1..(n + 1) |-> SubSeq(text, first(k), last(k))]

\* text.split(sep) for a separator of one code point
Split(text, sep) == Pieces(text, {i \in 1..Len(text) : text[i] = sep})

\* WhiteSpace and LineTerminator code points of ECMAScript
IsWhiteSpace(c) ==
  \/ c \in {9, 10, 11, 12, 13, 32, 160, 5760, 8232, 8233, 8239, 8287, 12288, 65279}
  \/ (c >= 8192 /\ c <= 8202)

\* text.trimStart()
TrimStart(text) ==
  LET ink == {i \in 1..Len(text) : ~IsWhiteSpace(text[i])}
  IN IF ink = {} THEN <<>>
     ELSE SubSeq(text, CHOOSE i \in ink : \A j \in ink : i <= j, Len(text))

\* text.trim()
Trim(text) ==
  LET ink == {i \in 1..Len(text) : ~IsWhiteSpace(text[i])}
  IN IF ink = {} THEN <<>>
     ELSE SubSeq(text, CHOOSE i \in ink : \A j \in ink : i <= j,
                       CHOOSE i \in ink : \A j \in ink : i >= j)

\* parts[k] of a JavaScript array (k from 0): undefined past the end
At(parts, k) == IF k + 1 <= Len(parts) THEN Str(parts[k + 1]) ELSE StrUndefined

(***************************************************************************)
(* parseInt(string) with no radix: white space skipped, a sign, 0x for     *)
(* hexadecimal, the longest run of digits; NaN where there is none.        *)
(***************************************************************************)
NaNInt == [nan |-> TRUE, v |-> 0]
IntOf(n) == [nan |-> FALSE, v |-> n]

DigitValue(c) ==
  IF c >= 48 /\ c <= 57 THEN c - 48
  ELSE IF c >= 97 /\ c <= 102 THEN c - 87
  ELSE IF c >= 65 /\ c <= 70 THEN c - 55
  ELSE 99

RECURSIVE DigitsRun(_, _, _, _, _)
\* <<value, number of digits read>>
DigitsRun(text, i, radix, acc, n) ==
  IF i <= Len(text) /\ DigitValue(text[i]) < radix
  THEN DigitsRun(text, i + 1, radix, acc * radix + DigitValue(text[i]), n + 1)
  ELSE <<acc, n>>

ParseInt(str) ==
  LET t0   == TrimStart(KeyOf(str))
      neg  == t0 # <<>> /\ Head(t0) = 45
      t1   == IF t0 # <<>> /\ Head(t0) \in {43, 45} THEN Tail(t0) ELSE t0
      hex  == Len(t1) >= 2 /\ t1[1] = 48 /\ t1[2] \in {120, 88}
      t2   == IF hex THEN SubSeq(t1, 3, Len(t1)) ELSE t1
      r    == DigitsRun(t2, 1, IF hex THEN 16 ELSE 10, 0, 0)
  IN IF r[2] = 0 THEN NaNInt ELSE IntOf(IF neg THEN 0 - r[1] ELSE r[1])

(***************************************************************************)
(* parseHeader(buffer): the state of its loop over the lines, and the loop.*)
(***************************************************************************)
HeaderInit ==
  [format |-> Str(S_ascii), vertexCount |-> IntOf(0), properties |-> <<>>,
   headerLength |-> 0]

\* one pass of the loop body on lines[i]; st = [header, littleEndian, inHeader,
\* headerText, done]
HeaderLine(st, rawLine) ==
  LET line  == Trim(rawLine)
      text  == st.headerText \o line \o <<LF>>
      parts == Split(line, SP)
      h     == st.header
  IN IF line = S_ply
     THEN [st EXCEPT !.headerText = text, !.inHeader = TRUE]
     ELSE IF line = S_end_header
     THEN [st EXCEPT !.headerText = text, !.done = TRUE,
                     !.header = [h EXCEPT !.headerLength = TextEncodeLength(text)]]
     ELSE IF ~st.inHeader
     THEN [st EXCEPT !.headerText = text]
     ELSE IF At(parts, 0) = Str(S_format)
     THEN [st EXCEPT !.headerText = text,
                     !.header = [h EXCEPT !.format = At(parts, 1)],
                     !.littleEndian = (At(parts, 1) = Str(S_binary_little_endian))]
     ELSE IF At(parts, 0) = Str(S_element) /\ At(parts, 1) = Str(S_vertex)
     THEN [st EXCEPT !.headerText = text,
                     !.header = [h EXCEPT !.vertexCount = ParseInt(At(parts, 2))]]
     ELSE IF At(parts, 0) = Str(S_property)
     THEN [st EXCEPT !.headerText = text,
                     !.header = [h EXCEPT !.properties =
                        Append(@, [type |-> At(parts, 1), name |-> At(parts, 2)])]]
     ELSE [st EXCEPT !.headerText = text]

RECURSIVE HeaderLoop(_, _, _)
HeaderLoop(lines, i, st) ==
  IF i > Len(lines) \/ st.done THEN st
  ELSE HeaderLoop(lines, i + 1, HeaderLine(st, lines[i]))

\* [header, littleEndian]: the header returned and this.littleEndian afterwards
ParseHeader(buffer, littleEndian) ==
  LET lines == Split(TextDecode(buffer), LF)
      st    == HeaderLoop(lines, 1,
                 [header |-> HeaderInit, littleEndian |-> littleEndian,
                  inHeader |-> FALSE, headerText |-> <<>>, done |-> FALSE])
  IN [header |-> st.header, littleEndian |-> st.littleEndian]


(***************************************************************************)
(* JavaScript numbers as terms.                                            *)
(*   [t |-> "undefined"]                      the value undefined          *)
(*   [t |-> "NaN"], [t |-> "Infinity"]        computed special values      *)
(*   [t |-> "lit", s |-> "0.01"]              a literal of the source      *)
(*   [t |-> "float32", b |-> <<b1,..,b4>>]    a value read from the file:  *)
(*        its DataView type and its bytes, most significant first          *)
(*   [t |-> "neg" | "exp" | "sigmoid", of |-> v], [t |-> "arith", ...]     *)
(*        finite results of the arithmetic, kept symbolic                  *)
(***************************************************************************)
Undefined == [t |-> "undefined"]
NaNV == [t |-> "NaN"]
PosInfinity == [t |-> "Infinity"]
Lit(s) == [t |-> "lit", s |-> s]
Bin(t, b) == [t |-> t, b |-> b]

\* a >= b for two byte sequences of one length, most significant byte first
RECURSIVE GeLex(_, _)
GeLex(a, b) ==
  IF a = <<>> THEN TRUE
  ELSE IF Head(a) # Head(b) THEN Head(a) > Head(b)
  ELSE GeLex(Tail(a), Tail(b))

AllZero(b) == \A k \in 1..Len(b) : b[k] = 0

\* the bytes of |x| for an IEEE-754 value: the sign bit cleared
Magnitude(b) == <<b[1] % 128>> \o Tail(b)

\* |x| of the smallest float32 / float64 with Math.exp(x) = Infinity, of the
\* smallest with Math.exp(-x) = 0, of 1.0 and of the infinities
F32_EXP_OVERFLOW == <<68, 49, 114, 24>>
F32_EXP_UNDERFLOW == <<68, 58, 72, 135>>
F32_ONE == <<63, 128, 0, 0>>
F32_INF == <<127, 128, 0, 0>>
F64_EXP_OVERFLOW == <<64, 134, 46, 66, 254, 250, 57, 240>>
F64_EXP_UNDERFLOW == <<64, 135, 73, 16, 213, 45, 48, 82>>
F64_ONE == <<63, 240, 0, 0, 0, 0, 0, 0>>
F64_INF == <<127, 240, 0, 0, 0, 0, 0, 0>>

\* what the arithmetic needs to know of a number: is it NaN, its sign, whether
\* |x| > 1, whether exp(|x|) overflows, whether exp(-|x|) underflows to 0
NumView(nan, sign, gt1, big, huge) ==
  [nan |-> nan, sign |-> sign, gt1 |-> gt1, big |-> big, huge |-> huge]

FloatView(b, one, inf, over, under) ==
  LET m == Magnitude(b) IN
  IF GeLex(m, inf) /\ m # inf THEN NumView(TRUE, 0, FALSE, FALSE, FALSE)
  ELSE NumView(FALSE,
               IF AllZero(m) THEN 0 ELSE IF b[1] >= 128 THEN 0 - 1 ELSE 1,
               GeLex(m, one) /\ m # one, GeLex(m, over), GeLex(m, under))

\* the integer of a two's-complement or unsigned byte sequence of at most 4
\* bytes; an unsigned 32-bit value of 2^31 or more is clipped to 2^31 - 1
RECURSIVE Unsigned(_, _)
Unsigned(b, acc) == IF b = <<>> THEN acc ELSE Unsigned(Tail(b), acc * 256 + Head(b))

IntegerOf(b, signed) ==
  IF signed /\ b[1] >= 128 THEN Unsigned(Tail(b), b[1] - 256)
  ELSE IF Len(b) = 4 /\ b[1] >= 128 THEN 2147483647
  ELSE Unsigned(b, 0)

IntView(n) ==
  NumView(FALSE, IF n = 0 THEN 0 ELSE IF n < 0 THEN 0 - 1 ELSE 1,
          n > 1 \/ n < 0 - 1, n >= 710 \/ n <= 0 - 710, n >= 746 \/ n <= 0 - 746)

LitView(s) ==
  CASE s \in {"0", "0.0"} -> NumView(FALSE, 0, FALSE, FALSE, FALSE)
    [] s \in {"0.01", "0.5", "0.8", "1", "1.0", "0.28209479177387814"} ->
         NumView(FALSE, 1, FALSE, FALSE, FALSE)
    [] s \in {"255.0"} -> NumView(FALSE, 1, TRUE, FALSE, FALSE)
    [] s \in {"-0.5"} -> NumView(FALSE, 0 - 1, FALSE, FALSE, FALSE)

(***************************************************************************)
(* parseFloat(token): the longest prefix that is a decimal literal, as the *)
(* term [t |-> "dec", neg, digits, point, exp]: the number                 *)
(* (-1)^neg * 0.digits * 10^(point + exp), digits being the digits of the  *)
(* integer and fraction parts and point the count of the integer digits.   *)
(***************************************************************************)
S_Infinity == <<73, 110, 102, 105, 110, 105, 116, 121>>  \* "Infinity"

IsDigit(c) == c >= 48 /\ c <= 57

RECURSIVE DigitRun(_, _, _)
\* the digits text[i], text[i+1], ... up to the first code point that is none
DigitRun(text, i, out) ==
  IF i <= Len(text) /\ IsDigit(text[i]) THEN DigitRun(text, i + 1, Append(out, text[i] - 48))
  ELSE out

RECURSIVE DigitsToInt(_, _)
\* the integer of a digit sequence, clipped at 100000
DigitsToInt(d, acc) ==
  IF d = <<>> THEN acc
  ELSE IF acc >= 10000 THEN 100000
  ELSE DigitsToInt(Tail(d), acc * 10 + Head(d))

StartsWith(text, i, word) ==
  /\ i + Len(word) - 1 <= Len(text)
  /\ SubSeq(text, i, i + Len(word) - 1) = word

ParseFloat(token) ==
  LET t     == TrimStart(token)
      neg   == t # <<>> /\ Head(t) = 45
      i0    == IF t # <<>> /\ Head(t) \in {43, 45} THEN 2 ELSE 1
      ip    == DigitRun(t, i0, <<>>)
      i1    == i0 + Len(ip)
      dot   == i1 <= Len(t) /\ t[i1] = 46
      fp    == IF dot THEN DigitRun(t, i1 + 1, <<>>) ELSE <<>>
      i2    == IF dot THEN i1 + 1 + Len(fp) ELSE i1
      hasE  == i2 <= Len(t) /\ t[i2] \in {101, 69}
      eNeg  == hasE /\ i2 + 1 <= Len(t) /\ t[i2 + 1] = 45
      i3    == IF hasE /\ i2 + 1 <= Len(t) /\ t[i2 + 1] \in {43, 45} THEN i2 + 2 ELSE i2 + 1
      ed    == IF hasE THEN DigitRun(t, i3, <<>>) ELSE <<>>
      e     == IF eNeg THEN 0 - DigitsToInt(ed, 0) ELSE DigitsToInt(ed, 0)
  IN IF StartsWith(t, i0, S_Infinity)
     THEN (IF neg THEN [t |-> "neg", of |-> PosInfinity] ELSE PosInfinity)
     ELSE IF ip = <<>> /\ fp = <<>> THEN NaNV
     ELSE [t |-> "dec", neg |-> neg, digits |-> ip \o fp, point |-> Len(ip), exp |-> e]

RECURSIVE LeadingZeros(_)
LeadingZeros(d) == IF d # <<>> /\ Head(d) = 0 THEN 1 + LeadingZeros(Tail(d)) ELSE 0

\* a >= b for two digit sequences read as fractions 0.a and 0.b
RECURSIVE GeFraction(_, _)
GeFraction(a, b) ==
  IF b = <<>> THEN TRUE
  ELSE IF a = <<>> THEN AllZero(b)
  ELSE IF Head(a) # Head(b) THEN Head(a) > Head(b)
  ELSE GeFraction(Tail(a), Tail(b))

\* 1, and the decimal expansions of the two Math.exp thresholds, as 0.digits * 10^point
DEC_ONE == <<1>>
DEC_EXP_OVERFLOW == <<7, 0, 9, 7, 8, 2, 7, 1, 2, 8, 9, 3, 3, 8, 4, 1>>
DEC_EXP_UNDERFLOW == <<7, 4, 5, 1, 3, 3, 2, 1, 9, 1, 0, 1, 9, 4, 1, 2>>

DecView(v) ==
  LET z  == LeadingZeros(v.digits)
      d  == SubSeq(v.digits, z + 1, Len(v.digits))
      pp == v.point - z + v.exp
      ge(t, tp) == pp > tp \/ (pp = tp /\ GeFraction(d, t))
  IN IF d = <<>> \/ pp < 0 - 323 THEN NumView(FALSE, 0, FALSE, FALSE, FALSE)
     ELSE NumView(FALSE, IF v.neg THEN 0 - 1 ELSE 1,
                  ge(DEC_ONE, 1) /\ ~(pp = 1 /\ GeFraction(DEC_ONE, d)),
                  ge(DEC_EXP_OVERFLOW, 3), ge(DEC_EXP_UNDERFLOW, 3))

RECURSIVE View(_)
View(v) ==
  CASE v.t = "undefined" -> NumView(TRUE, 0, FALSE, FALSE, FALSE)  \* ToNumber(undefined)
    [] v.t = "NaN" -> NumView(TRUE, 0, FALSE, FALSE, FALSE)
    [] v.t = "Infinity" -> NumView(FALSE, 1, TRUE, TRUE, TRUE)
    [] v.t = "lit" -> LitView(v.s)
    [] v.t = "dec" -> DecView(v)
    [] v.t = "float32" -> FloatView(v.b, F32_ONE, F32_INF, F32_EXP_OVERFLOW, F32_EXP_UNDERFLOW)
    [] v.t = "float64" -> FloatView(v.b, F64_ONE, F64_INF, F64_EXP_OVERFLOW, F64_EXP_UNDERFLOW)
    [] v.t \in {"int32", "int16", "int8"} -> IntView(IntegerOf(v.b, TRUE))
    [] v.t \in {"uint32", "uint16", "uint8"} -> IntView(IntegerOf(v.b, FALSE))
    [] v.t = "neg" -> [View(v.of) EXCEPT !.sign = 0 - @]
    \* a finite positive Math.exp(x): greater than 1 only for x > 0
    [] v.t = "exp" -> NumView(FALSE, 1, View(v.of).sign = 1, View(v.of).big, View(v.of).huge)
    \* 1/(1+e) for a finite e > 0: in (0, 1]
    [] v.t = "sigmoid" -> NumView(FALSE, 1, FALSE, FALSE, FALSE)

\* an "arith" term is a non-NaN number combined with a finite nonzero literal,
\* which is never NaN
IsNaN(v) == IF v.t = "arith" THEN FALSE ELSE View(v).nan
IsZero(v) == ~View(v).nan /\ View(v).sign = 0
\* ToBoolean(v) of undefined or a number
Truthy(v) == v # Undefined /\ ~IsNaN(v) /\ ~IsZero(v)
\* a || b
Or(a, b) == IF Truthy(a) THEN a ELSE b

\* -v
Negate(v) == IF IsNaN(v) THEN NaNV ELSE [t |-> "neg", of |-> v]

\* Math.exp(v): NaN for NaN, 1 for a zero, Infinity on overflow, 0 on underflow
MathExp(v) ==
  LET n == View(v) IN
  IF n.nan THEN NaNV
  ELSE IF n.sign = 0 THEN Lit("1")
  ELSE IF n.sign = 1 /\ n.big THEN PosInfinity
  ELSE IF n.sign = 0 - 1 /\ n.huge THEN Lit("0")
  ELSE [t |-> "exp", of |-> v]

\* 1.0 / (1.0 + e) for a result e of Math.exp
OneOverOnePlus(e, x) ==
  IF IsNaN(e) THEN NaNV
  ELSE IF e = PosInfinity THEN Lit("0")
  ELSE IF e = Lit("0") THEN Lit("1")
  ELSE [t |-> "sigmoid", of |-> x]

\* a Math.min(1, v) that lets every v through: what C8 tells from MathMin1
MathMin1Absent(v) == v

\* Math.min(1, v) and Math.max(0, v)
MathMin1(v) ==
  IF IsNaN(v) THEN NaNV
  ELSE IF View(v).sign = 1 /\ View(v).gt1 THEN Lit("1") ELSE v

MathMax0(v) ==
  IF IsNaN(v) THEN NaNV
  ELSE IF View(v).sign = 0 - 1 THEN Lit("0") ELSE v

\* a op b, one of a and b a number and the other a finite nonzero literal, op
\* one of "/", "-", "+", "*": NaN if the number is NaN
Arith(op, a, b) ==
  IF IsNaN(a) \/ IsNaN(b) THEN NaNV ELSE [t |-> "arith", op |-> op, a |-> a, b |-> b]

(***************************************************************************)
(* A raw vertex: the object { name: value } built for one record, as the   *)
(* sequence of its [name, value] pairs.                                    *)
(***************************************************************************)
Has(vertex, name) == \E k \in 1..Len(vertex) : vertex[k].name = name

\* vertex[name]: undefined when the object has no such property
Get(vertex, name) ==
  IF Has(vertex, name)
  THEN vertex[CHOOSE k \in 1..Len(vertex) : vertex[k].name = name].value
  ELSE Undefined

\* vertex[name] = value
Put(vertex, name, value) ==
  IF Has(vertex, name)
  THEN [k \in 1..Len(vertex) |->
          IF vertex[k].name = name THEN [name |-> name, value |-> value] ELSE vertex[k]]
  ELSE Append(vertex, [name |-> name, value |-> value])

(***************************************************************************)
(* processVertex(vertex): one raw vertex to one splat.                     *)
(***************************************************************************)
\* the decimal digits of i (0..99), as text
Decimal(i) == IF i < 10 THEN <<48 + i>> ELSE <<48 + (i \div 10), 48 + (i % 10)>>

\* `f_rest_${i}`
RestName(i) == S_f_rest_ \o Decimal(i)

SH_REST_COUNT == 45

\* position: vertex.x || 0, vertex.y || 0, vertex.z || 0
Position(vertex) ==
  <<Or(Get(vertex, S_x), Lit("0")), Or(Get(vertex, S_y), Lit("0")),
    Or(Get(vertex, S_z), Lit("0"))>>

\* vertex.scale_0 || vertex.scale_x || 0.01, before the exponential
RawScale(vertex, first, second) ==
  Or(Or(Get(vertex, first), Get(vertex, second)), Lit("0.01"))

\* processed.scale after .map(s => Math.exp(s))
Scale(vertex) ==
  <<MathExp(RawScale(vertex, S_scale_0, S_scale_x)),
    MathExp(RawScale(vertex, S_scale_1, S_scale_y)),
    MathExp(RawScale(vertex, S_scale_2, S_scale_z))>>

\* a rotation that puts the components of the identity quaternion for those
\* absent or NaN
RotationOrIdentity(vertex) ==
  <<Or(Get(vertex, S_rot_0), Lit("1")), Or(Get(vertex, S_rot_1), Lit("0")),
    Or(Get(vertex, S_rot_2), Lit("0")), Or(Get(vertex, S_rot_3), Lit("0"))>>

Rotation(vertex) ==
  <<Get(vertex, S_rot_0), Get(vertex, S_rot_1), Get(vertex, S_rot_2),
    Get(vertex, S_rot_3)>>

\* 1.0 / (1.0 + Math.exp(-vertex.opacity))
Sigmoid(raw) == OneOverOnePlus(MathExp(Negate(raw)), raw)

\* Math.max(0, Math.min(1, processed.opacity || vertex.alpha || 0.8))
Opacity(vertex) ==
  MathMax0(MathMin1(
    Or(Or(Sigmoid(Get(vertex, S_opacity)), Get(vertex, S_alpha)), Lit("0.8"))))

\* [vertex.f_dc_0 || 0.0, vertex.f_dc_1 || 0.0, vertex.f_dc_2 || 0.0]
ShDc(vertex) ==
  <<Or(Get(vertex, S_f_dc_0), Lit("0.0")), Or(Get(vertex, S_f_dc_1), Lit("0.0")),
    Or(Get(vertex, S_f_dc_2), Lit("0.0"))>>

ShRest(vertex) ==
  [i \in 1..SH_REST_COUNT |-> Or(Get(vertex, RestName(i - 1)), Lit("0.0"))]

\* (c / 255.0 - 0.5) / 0.28209479177387814
DcFrom8Bit(c) ==
  Arith("/", Arith("-", Arith("/", c, Lit("255.0")), Lit("0.5")),
        Lit("0.28209479177387814"))

\* (c - 0.5) / 0.28209479177387814
DcFromUnit(c) == Arith("/", Arith("-", c, Lit("0.5")), Lit("0.28209479177387814"))

\* the "Default orange color for debugging"
DefaultDc == <<Lit("0.5"), Lit("0.0"), Lit("-0.5")>>

\* a fallback that tries r, g, b before red, green, blue: what C10 tells from
\* ColorDc
ColorDcUnitFirst(vertex) ==
  LET dc == ShDc(vertex) IN
  IF IsZero(dc[1]) /\ IsZero(dc[2]) /\ IsZero(dc[3])
  THEN IF /\ Get(vertex, S_r) # Undefined
          /\ Get(vertex, S_g) # Undefined
          /\ Get(vertex, S_b) # Undefined
       THEN <<DcFromUnit(Get(vertex, S_r)), DcFromUnit(Get(vertex, S_g)),
              DcFromUnit(Get(vertex, S_b))>>
       ELSE IF /\ Get(vertex, S_red) # Undefined
               /\ Get(vertex, S_green) # Undefined
               /\ Get(vertex, S_blue) # Undefined
       THEN <<DcFrom8Bit(Get(vertex, S_red)), DcFrom8Bit(Get(vertex, S_green)),
              DcFrom8Bit(Get(vertex, S_blue))>>
       ELSE DefaultDc
  ELSE dc

\* processed.sh_dc after the fallback to a simple colour
ColorDc(vertex) ==
  LET dc == ShDc(vertex) IN
  IF IsZero(dc[1]) /\ IsZero(dc[2]) /\ IsZero(dc[3])
  THEN IF /\ Get(vertex, S_red) # Undefined
          /\ Get(vertex, S_green) # Undefined
          /\ Get(vertex, S_blue) # Undefined
       THEN <<DcFrom8Bit(Get(vertex, S_red)), DcFrom8Bit(Get(vertex, S_green)),
              DcFrom8Bit(Get(vertex, S_blue))>>
       ELSE IF /\ Get(vertex, S_r) # Undefined
               /\ Get(vertex, S_g) # Undefined
               /\ Get(vertex, S_b) # Undefined
       THEN <<DcFromUnit(Get(vertex, S_r)), DcFromUnit(Get(vertex, S_g)),
              DcFromUnit(Get(vertex, S_b))>>
       ELSE DefaultDc
  ELSE dc

ProcessVertex(vertex) ==
  [position |-> Position(vertex),
   scale    |-> Scale(vertex),
   rotation |-> Rotation(vertex),
   opacity  |-> Opacity(vertex),
   sh_dc    |-> ColorDc(vertex),
   sh_rest  |-> ShRest(vertex)]

(***************************************************************************)
(* createPropertyMap(properties): the object { name: {offset, type, size}, *)
(* vertexSize: number }, as the sequence of its keys in insertion order.   *)
(* An entry is [name, isNumber, offset, type, size]; isNumber marks the    *)
(* key whose value is the number map.vertexSize.                           *)
(***************************************************************************)
GetTypeSize(type) ==
  CASE type = Str(S_float) -> 4
    [] type = Str(S_double) -> 8
    [] type \in {Str(S_int), Str(S_uint)} -> 4
    [] type \in {Str(S_short), Str(S_ushort)} -> 2
    [] type \in {Str(S_char), Str(S_uchar)} -> 1
    [] OTHER -> 4

MapHas(map, name) == \E k \in 1..Len(map) : map[k].name = name

\* map[name] = entry: an existing key keeps its place
MapSet(map, entry) ==
  IF MapHas(map, entry.name)
  THEN [k \in 1..Len(map) |-> IF map[k].name = entry.name THEN entry ELSE map[k]]
  ELSE Append(map, entry)

RECURSIVE PropertyMapLoop(_, _, _, _)
PropertyMapLoop(properties, i, offset, map) ==
  IF i > Len(properties)
  THEN MapSet(map, [name |-> S_vertexSize, isNumber |-> TRUE, offset |-> offset,
                    type |-> StrUndefined, size |-> 0])
  ELSE LET prop == properties[i] IN
       PropertyMapLoop(properties, i + 1, offset + GetTypeSize(prop.type),
         MapSet(map, [name |-> KeyOf(prop.name), isNumber |-> FALSE, offset |-> offset,
                      type |-> prop.type, size |-> GetTypeSize(prop.type)]))

CreatePropertyMap(properties) == PropertyMapLoop(properties, 1, 0, <<>>)

\* propertyMap.vertexSize
VertexSize(map) == map[CHOOSE k \in 1..Len(map) : map[k].name = S_vertexSize].offset

(***************************************************************************)
(* readBinaryValue(dataView, offset, type): a DataView read.  The result   *)
(* is [err, value]; err is the RangeError of a read outside the buffer.    *)
(***************************************************************************)
Reverse(b) == [k \in 1..Len(b) |-> b[Len(b) + 1 - k]]

\* a read that takes the bytes most significant first whatever it is told
DataViewGetBigEndian(buffer, offset, kind, width, littleEndian) ==
  IF offset < 0 \/ offset + width > Len(buffer)
  THEN [err |-> TRUE, value |-> Undefined]
  ELSE [err |-> FALSE, value |-> Bin(kind, SubSeq(buffer, offset + 1, offset + width))]

\* dataView.get<Kind>(offset, littleEndian) for a Kind of `width` bytes
DataViewGet(buffer, offset, kind, width, littleEndian) ==
  IF offset < 0 \/ offset + width > Len(buffer)
  THEN [err |-> TRUE, value |-> Undefined]
  ELSE LET bytes == SubSeq(buffer, offset + 1, offset + width)
       IN [err |-> FALSE,
           value |-> Bin(kind, IF littleEndian THEN Reverse(bytes) ELSE bytes)]

ReadBinaryValue(buffer, offset, type, littleEndian) ==
  CASE type = Str(S_float) -> DataViewGet(buffer, offset, "float32", 4, littleEndian)
    [] type = Str(S_double) -> DataViewGet(buffer, offset, "float64", 8, littleEndian)
    [] type = Str(S_int) -> DataViewGet(buffer, offset, "int32", 4, littleEndian)
    [] type = Str(S_uint) -> DataViewGet(buffer, offset, "uint32", 4, littleEndian)
    [] type = Str(S_short) -> DataViewGet(buffer, offset, "int16", 2, littleEndian)
    [] type = Str(S_ushort) -> DataViewGet(buffer, offset, "uint16", 2, littleEndian)
    [] type = Str(S_char) -> DataViewGet(buffer, offset, "int8", 1, FALSE)
    [] type = Str(S_uchar) -> DataViewGet(buffer, offset, "uint8", 1, FALSE)
    [] OTHER -> DataViewGet(buffer, offset, "float32", 4, littleEndian)

(***************************************************************************)
(* parseBinaryVertices: the records in turn, each read through the         *)
(* property map and handed to processVertex.  [err, vertices].             *)
(***************************************************************************)
RECURSIVE ReadRecord(_, _, _, _, _, _)
\* the inner loop over Object.entries(propertyMap): [err, vertex]
ReadRecord(buffer, vertexOffset, map, k, littleEndian, vertex) ==
  IF k > Len(map) THEN [err |-> FALSE, vertex |-> vertex]
  ELSE IF map[k].name = S_vertexSize
  THEN ReadRecord(buffer, vertexOffset, map, k + 1, littleEndian, vertex)
  ELSE LET r == ReadBinaryValue(buffer, vertexOffset + map[k].offset, map[k].type,
                                littleEndian)
       IN IF r.err THEN [err |-> TRUE, vertex |-> vertex]
          ELSE ReadRecord(buffer, vertexOffset, map, k + 1, littleEndian,
                          Put(vertex, map[k].name, r.value))

RECURSIVE BinaryVerticesLoop(_, _, _, _, _, _, _)
BinaryVerticesLoop(buffer, offset, header, map, littleEndian, i, vertices) ==
  IF header.vertexCount.nan \/ ~(i < header.vertexCount.v)
  THEN [err |-> FALSE, vertices |-> vertices]
  ELSE LET r == ReadRecord(buffer, offset + i * VertexSize(map), map, 1, littleEndian, <<>>)
       IN IF r.err THEN [err |-> TRUE, vertices |-> <<>>]
          ELSE BinaryVerticesLoop(buffer, offset, header, map, littleEndian, i + 1,
                                  Append(vertices, ProcessVertex(r.vertex)))

ParseBinaryVertices(buffer, offset, header, map, littleEndian) ==
  BinaryVerticesLoop(buffer, offset, header, map, littleEndian, 0, <<>>)

(***************************************************************************)
(* parseAsciiVertices and createVertex.                                    *)
(***************************************************************************)
\* text.split(/\s+/) of a trimmed text: the runs of code points that are not
\* white space
SplitSpaces(text) ==
  SelectSeq(Pieces(text, {i \in 1..Len(text) : IsWhiteSpace(text[i])}),
            LAMBDA piece : piece # <<>>)

RECURSIVE CreateVertexLoop(_, _, _, _)
CreateVertexLoop(values, properties, i, vertex) ==
  IF i > Len(properties) \/ i > Len(values) THEN vertex
  ELSE CreateVertexLoop(values, properties, i + 1,
                        Put(vertex, KeyOf(properties[i].name), values[i]))

CreateVertex(values, properties) ==
  ProcessVertex(CreateVertexLoop(values, properties, 1, <<>>))

\* text.split('\n').filter(line => line.trim())
NonBlankLines(text) == SelectSeq(Split(text, LF), LAMBDA line : Trim(line) # <<>>)

RECURSIVE AsciiVerticesLoop(_, _, _, _)
AsciiVerticesLoop(lines, header, i, vertices) ==
  IF header.vertexCount.nan \/ ~(i < Len(lines)) \/ ~(i < header.vertexCount.v)
  THEN vertices
  ELSE LET tokens == SplitSpaces(Trim(lines[i + 1]))
           values == [k \in 1..Len(tokens) |-> ParseFloat(tokens[k])]
       IN AsciiVerticesLoop(lines, header, i + 1,
            IF Len(values) >= 3
            THEN Append(vertices, CreateVertex(values, header.properties))
            ELSE vertices)

ParseAsciiVertices(buffer, offset, header) ==
  LET text == TextDecode(SubSeq(buffer, offset + 1, Len(buffer)))
  IN [err |-> FALSE,
      vertices |-> AsciiVerticesLoop(NonBlankLines(text), header, 0, <<>>)]

(***************************************************************************)
(* parseVertices, createGaussianSplatMesh and parse.                       *)
(***************************************************************************)
\* parseVertices that reads every body as binary
ParseVerticesAsBinary(buffer, offset, header, littleEndian) ==
  ParseBinaryVertices(buffer, offset, header, CreatePropertyMap(header.properties),
                      littleEndian)

ParseVertices(buffer, offset, header, littleEndian) ==
  IF header.format = Str(S_ascii)
  THEN ParseAsciiVertices(buffer, offset, header)
  ELSE ParseBinaryVertices(buffer, offset, header,
                           CreatePropertyMap(header.properties), littleEndian)

\* array[k] = v on a Float32Array: v rounded to the nearest float32, NaN for
\* undefined.  A float32, an integer of at most 16 bits and the literals
\* below are float32 values already; any other number is kept as the term
\* "fround" of it.
Fround(v) ==
  IF IsNaN(v) THEN NaNV
  ELSE IF \/ v.t \in {"float32", "int16", "uint16", "int8", "uint8", "Infinity"}
          \/ v \in {Lit("0"), Lit("0.0"), Lit("0.5"), Lit("-0.5"), Lit("1")}
  THEN v
  ELSE [t |-> "fround", of |-> v]

\* the vertex counted from the last: an array filled backwards
VertexOfIndexBackwards(n, k, components) == n - ((k - 1) \div components)

\* the i (from 1) of array[i * components + c], for the array index k (from 1)
VertexOfIndex(n, k, components) == ((k - 1) \div components) + 1

\* the Float32Array filled by array[i * components + c] = fields[i][c], where
\* fields[i] is the field of vertices[i] the array is filled from
Attribute(fields, components) ==
  [k \in 1..(Len(fields) * components) |->
     Fround(fields[VertexOfIndex(Len(fields), k, components)][((k - 1) % components) + 1])]

\* a colour without the 0.5: what C11 tells from Rgb
RgbWithoutOffset(dc) == Arith("*", Lit("0.28209479177387814"), dc)

\* 0.5 + 0.28209479177387814 * dc
Rgb(dc) == Arith("+", Lit("0.5"), Arith("*", Lit("0.28209479177387814"), dc))

SH_REST_GROUPS == 9

\* the values written to sh_rest_<3g>_<3g+2> for one vertex, g from 0
RestGroup(v, g) ==
  <<Or(v.sh_rest[3 * g + 1], Lit("0.0")), Or(v.sh_rest[3 * g + 2], Lit("0.0")),
    Or(v.sh_rest[3 * g + 3], Lit("0.0"))>>

\* the attributes set on the geometry
Attributes(vertices) ==
  [color    |-> Attribute([i \in 1..Len(vertices) |->
                             <<Rgb(vertices[i].sh_dc[1]), Rgb(vertices[i].sh_dc[2]),
                               Rgb(vertices[i].sh_dc[3])>>], 3),
   position |-> Attribute([i \in 1..Len(vertices) |-> vertices[i].position], 3),
   scale    |-> Attribute([i \in 1..Len(vertices) |-> vertices[i].scale], 3),
   rotation |-> Attribute([i \in 1..Len(vertices) |-> vertices[i].rotation], 4),
   opacity  |-> Attribute([i \in 1..Len(vertices) |-> <<vertices[i].opacity>>], 1),
   sh_dc    |-> Attribute([i \in 1..Len(vertices) |-> vertices[i].sh_dc], 3),
   sh_rest  |-> [g \in 1..SH_REST_GROUPS |->
                   Attribute([i \in 1..Len(vertices) |-> RestGroup(vertices[i], g - 1)], 3)]]

\* the THREE.Points returned: its userData, its geometry's attributes, and the
\* splats the attributes were filled from
CreateGaussianSplatMesh(vertices, header) ==
  [vertexCount |-> Len(vertices), format |-> header.format,
   properties |-> header.properties, vertices |-> vertices,
   attributes |-> Attributes(vertices)]

NoMesh == CreateGaussianSplatMesh(<<>>, HeaderInit)

\* parse(buffer) on a loader whose this.littleEndian is littleEndian:
\* [threw, mesh, header, littleEndian]; header is the one logged by parse
\* ph is what parseHeader gave, vs what parseVertices gave
ParseResult(ph, vs) ==
  [threw |-> vs.err,
   mesh |-> IF vs.err THEN NoMesh ELSE CreateGaussianSplatMesh(vs.vertices, ph.header),
   header |-> ph.header,
   littleEndian |-> ph.littleEndian]

\* offset = header.headerLength and the rest of parse
ParseFrom(buffer, ph) ==
  ParseResult(ph, ParseVertices(buffer, ph.header.headerLength, ph.header, ph.littleEndian))

Parse(buffer, littleEndian) == ParseFrom(buffer, ParseHeader(buffer, littleEndian))

(***************************************************************************)
(* The files the loader is given.  A file is built from a configuration:   *)
(*   eol    "lf" | "crlf"      how the header lines end                    *)
(*   fmt    "little" | "big" | "ascii" | "none"   the format line          *)
(*   noise  what else the header holds (see NoiseKinds)                    *)
(*   count  the <count> of `element vertex <count>`, -1 for no such line   *)
(*   props  which of PropLists the vertex element declares                 *)
(*   face   whether an `element face` with a list property follows         *)
(*   end    whether the header has its end_header line                     *)
(*   delta  bytes after the header, relative to count * record size        *)
(***************************************************************************)
MaxVertices == 2
MaxSlack == 1

PropLists ==
  << <<>>,
     << <<S_float, S_x>> >>,
     << <<S_float, S_x>>, <<S_float, S_y>>, <<S_float, S_z>> >>,
     << <<S_float, S_x>>, <<S_uchar, S_red>>, <<S_short, S_y>> >>,
     << <<S_float, S_x>>, <<S_float, S_x>> >>,
     << <<S_float, S_x>>, <<S_float, S_vertexSize>> >>,
     << <<S_double, S_x>>, <<S_half, S_y>> >>,
     [k \in 1..(3 * SH_REST_GROUPS) |-> <<S_uchar, RestName(k - 1)>>],
     << <<S_float, S_x>>, <<S_float, S_y>>, <<S_float, S_z>>,
        <<S_float, S_rot_0>>, <<S_float, S_rot_1>>, <<S_float, S_rot_2>>,
        <<S_float, S_rot_3>>, <<S_float, RestName(0)>>, <<S_float, RestName(1)>>,
        <<S_float, RestName(2)>> >>,
     << <<S_float, S_x>>, <<S_float, S_y>>, <<S_float, S_z>>,
        <<S_float, S_nx>>, <<S_float, S_ny>>, <<S_float, S_nz>>,
        <<S_float, S_f_dc_0>>, <<S_float, S_f_dc_1>>, <<S_float, S_f_dc_2>>,
        <<S_float, S_opacity>>,
        <<S_float, S_scale_0>>, <<S_float, S_scale_1>>, <<S_float, S_scale_2>>,
        <<S_float, S_rot_0>>, <<S_float, S_rot_1>>, <<S_float, S_rot_2>>,
        <<S_float, S_rot_3>> >>,
     << <<S_int, S_x>>, <<S_uint, S_y>>, <<S_ushort, S_z>> >> >>

\* the lists every kind of header is tried with, and the list of the
\* f_rest_0..26 that the sh_rest attributes hold
BasicPropLists == 1..7
\* the list of the position, the rotation and three rest coefficients, all float
WrittenPropList == 9
RestPropList == 8
\* the list of createPlyHeader
FixturePropList == 10
\* a list of the integer types of more than one byte
IntegerPropList == 11

NoiseKinds == {"none", "comment", "utf8", "invalid", "before", "spaces", "bom"}

\* words joined by single spaces
RECURSIVE Join(_)
Join(words) ==
  IF words = <<>> THEN <<>>
  ELSE IF Len(words) = 1 THEN words[1]
  ELSE words[1] \o <<SP>> \o Join(Tail(words))

RECURSIVE Concat(_)
Concat(seqs) == IF seqs = <<>> THEN <<>> ELSE Head(seqs) \o Concat(Tail(seqs))

\* the width in bytes the PLY format gives a scalar type (4 for one it does not name)
TypeWidth(word) ==
  CASE word = S_double -> 8
    [] word \in {S_short, S_ushort} -> 2
    [] word \in {S_char, S_uchar} -> 1
    [] OTHER -> 4

RECURSIVE DeclaredRecordSize(_)
\* R: the sum of the widths of the properties declared under `element vertex`
DeclaredRecordSize(props) ==
  IF props = <<>> THEN 0 ELSE TypeWidth(Head(props)[1]) + DeclaredRecordSize(Tail(props))

\* the lines of the header, each with its line ending; bytes, not text
HeaderLines(cfg) ==
  LET sp(on) == IF on /\ cfg.noise = "spaces" THEN <<SP>> ELSE <<>>
      props == PropLists[cfg.props]
  IN (IF cfg.noise = "before" THEN <<S_junk>> ELSE <<>>)
     \o << (IF cfg.noise = "bom" THEN <<239, 187, 191>> ELSE <<>>) \o S_ply >>
     \o (CASE cfg.fmt = "little" -> <<Join(<<S_format, S_binary_little_endian, S_1_0>>)>>
           [] cfg.fmt = "big" -> <<Join(<<S_format, S_binary_big_endian, S_1_0>>)>>
           [] cfg.fmt = "ascii" -> <<Join(<<S_format, S_ascii, S_1_0>>)>>
           [] OTHER -> <<>>)
     \o (CASE cfg.noise = "comment" -> <<Join(<<S_comment, S_junk>>)>>
           [] cfg.noise = "utf8" -> <<Join(<<S_comment, <<195, 169>>>>)>>
           [] cfg.noise = "invalid" -> <<Join(<<S_comment, <<255>>>>)>>
           [] OTHER -> <<>>)
     \o (IF cfg.count >= 0
         THEN <<sp(TRUE) \o Join(<<S_element, S_vertex, Decimal(cfg.count)>>) \o sp(TRUE)>>
         ELSE <<>>)
     \o [k \in 1..Len(props) |-> Join(<<S_property, props[k][1], props[k][2]>>)]
     \o (IF cfg.face
         THEN <<Join(<<S_element, S_face, Decimal(0)>>),
                Join(<<S_property, S_list, S_uchar, S_int, S_vertex_indices>>)>>
         ELSE <<>>)
     \o (IF cfg.end THEN <<S_end_header>> ELSE <<>>)

HeaderBytes(cfg) ==
  LET lines == HeaderLines(cfg)
      eol   == IF cfg.eol = "crlf" THEN <<CR, LF>> ELSE <<LF>>
  IN Concat([k \in 1..Len(lines) |-> lines[k] \o eol])

\* the j-th byte after the header: every position its own value
BodyByte(j) == (j * 37 + 11) % 256

BodyLength(cfg) ==
  LET n == (IF cfg.count > 0 THEN cfg.count ELSE 0) * DeclaredRecordSize(PropLists[cfg.props])
  IN IF n + cfg.delta < 0 THEN 0 ELSE n + cfg.delta

BodyBytes(cfg) == [j \in 1..BodyLength(cfg) |-> BodyByte(j)]

\* written: the rows of values a writer made the body of (none here)
FileOf(cfg) ==
  [cfg |-> cfg, header |-> HeaderBytes(cfg), body |-> BodyBytes(cfg), written |-> <<>>]

Config(eol, fmt, noise, count, props, face, end, delta) ==
  [eol |-> eol, fmt |-> fmt, noise |-> noise, count |-> count, props |-> props,
   face |-> face, end |-> end, delta |-> delta]

\* well-formed single-element binary files, exact, cut short or with bytes to spare
WellFormedConfigs ==
  { Config(eol, fmt, noise, count, props, FALSE, TRUE, delta) :
      eol \in {"lf", "crlf"}, fmt \in {"little", "big"}, noise \in NoiseKinds,
      count \in 0..MaxVertices, props \in BasicPropLists,
      delta \in (0 - MaxSlack)..MaxSlack }

\* files with a second element
MultiElementConfigs ==
  { Config("lf", "little", "none", count, props, TRUE, TRUE, delta) :
      count \in 0..MaxVertices, props \in {2, 3}, delta \in 0..MaxSlack }

\* files whose header lacks end_header or the vertex count
MalformedConfigs ==
  { Config("lf", fmt, "none", count, props, FALSE, end, 0) :
      fmt \in {"little", "ascii", "none"}, count \in (0 - 1)..MaxVertices,
      props \in {1, 2, 3}, end \in BOOLEAN }

\* files of f_rest coefficients
RestConfigs ==
  { Config("lf", fmt, "none", count, RestPropList, FALSE, TRUE, 0) :
      fmt \in {"little", "big"}, count \in 0..MaxVertices }

\* files of integer properties, in either byte order
IntegerConfigs ==
  { Config("lf", fmt, "none", count, IntegerPropList, FALSE, TRUE, 0) :
      fmt \in {"little", "big"}, count \in 0..MaxVertices }

(***************************************************************************)
(* Ascii files: after the header, one line of numbers for each row, the    *)
(* numbers separated by one space.  A row is given by how many numbers it  *)
(* has, none for an empty line; number k of row i is the decimal 10i + k,  *)
(* so that every number of a file tells its row and its place in it.       *)
(***************************************************************************)
MaxLines == 3
MaxTokens == 4

AsciiRows(kinds) ==
  [i \in 1..Len(kinds) |-> [k \in 1..kinds[i] |-> Decimal(10 * i + k)]]

AsciiBody(rows) == Concat([i \in 1..Len(rows) |-> Join(rows[i]) \o <<LF>>])

AsciiFile(count, props, kinds) ==
  [cfg |-> Config("lf", "ascii", "none", count, props, FALSE, TRUE, 0),
   header |-> HeaderBytes(Config("lf", "ascii", "none", count, props, FALSE, TRUE, 0)),
   body |-> AsciiBody(AsciiRows(kinds)),
   written |-> AsciiRows(kinds)]

AsciiFiles ==
  { AsciiFile(count, props, kinds) :
      count \in 0..MaxLines, props \in {3, WrittenPropList},
      kinds \in UNION {[1..n -> 0..MaxTokens] : n \in 1..MaxLines} }

(***************************************************************************)
(* Files written the way generatePlyFile writes them: the header, then for *)
(* each row each value by buffer.writeFloatLE.  A value is a float32 here, *)
(* which writeFloatLE stores as it is, least significant byte first.       *)
(***************************************************************************)
\* a writer of the most significant byte first: what C14 tells from WriteFloatLE
WriteFloatBE(value) == value.b

WriteFloatLE(value) == Reverse(value.b)

WrittenBody(rows) ==
  Concat([i \in 1..Len(rows) |-> Concat([k \in 1..Len(rows[i]) |-> WriteFloatLE(rows[i][k])])])

WrittenFile(rows) ==
  [cfg |-> Config("lf", "little", "none", Len(rows), WrittenPropList, FALSE, TRUE, 0),
   header |-> HeaderBytes(Config("lf", "little", "none", Len(rows), WrittenPropList,
                                 FALSE, TRUE, 0)),
   body |-> WrittenBody(rows),
   written |-> rows]

(***************************************************************************)
(* The file of the 12-Gaussian generator.  Its numbers are given as the    *)
(* float32 that buffer.writeFloatLE stores for them: the float32 nearest   *)
(* to the double.                                                          *)
(***************************************************************************)
NUM_GAUSSIANS == 12
BYTES_PER_VERTEX == 17 * 4
RING_COUNT == 6

Float32Of(s) ==
  CASE s = "0.0" -> Bin("float32", <<0, 0, 0, 0>>)
    [] s = "1.0" -> Bin("float32", <<63, 128, 0, 0>>)
    [] s = "-1.0" -> Bin("float32", <<191, 128, 0, 0>>)
    [] s = "0.1" -> Bin("float32", <<61, 204, 204, 205>>)
    [] s = "0.9" -> Bin("float32", <<63, 102, 102, 102>>)
    [] s = "0.8" -> Bin("float32", <<63, 76, 204, 205>>)

\* <<x, y>> of point i of a ring: radius * Math.cos(angle) and
\* radius * Math.sin(angle) for angle = (i * (2 * Math.PI) / 6) + offsetAngle;
\* ring 1 has radius 1.5 and offset 0, ring 2 radius 0.8 and offset Math.PI / 6
RingPoint(ring, i) ==
  IF ring = 1
  THEN << <<Bin("float32", <<63, 192, 0, 0>>), Bin("float32", <<0, 0, 0, 0>>)>>,
          <<Bin("float32", <<63, 64, 0, 0>>), Bin("float32", <<63, 166, 70, 225>>)>>,
          <<Bin("float32", <<191, 64, 0, 0>>), Bin("float32", <<63, 166, 70, 225>>)>>,
          <<Bin("float32", <<191, 192, 0, 0>>), Bin("float32", <<37, 83, 201, 202>>)>>,
          <<Bin("float32", <<191, 64, 0, 0>>), Bin("float32", <<191, 166, 70, 225>>)>>,
          <<Bin("float32", <<63, 64, 0, 0>>), Bin("float32", <<191, 166, 70, 225>>)>> >>[i + 1]
  ELSE << <<Bin("float32", <<63, 49, 92, 172>>), Bin("float32", <<62, 204, 204, 205>>)>>,
          <<Bin("float32", <<36, 97, 232, 79>>), Bin("float32", <<63, 76, 204, 205>>)>>,
          <<Bin("float32", <<191, 49, 92, 172>>), Bin("float32", <<62, 204, 204, 205>>)>>,
          <<Bin("float32", <<191, 49, 92, 172>>), Bin("float32", <<190, 204, 204, 205>>)>>,
          <<Bin("float32", <<165, 41, 110, 60>>), Bin("float32", <<191, 76, 204, 205>>)>>,
          <<Bin("float32", <<63, 49, 92, 172>>), Bin("float32", <<190, 204, 204, 205>>)>> >>[i + 1]

\* the rows pushed by generateRing(radius, z, baseColor, count, offsetAngle)
GenerateRing(ring, z, baseColor, count) ==
  [j \in 1..count |->
     << RingPoint(ring, j - 1)[1], RingPoint(ring, j - 1)[2], Float32Of(z),
        Float32Of("0.0"), Float32Of("0.0"), Float32Of("1.0"),
        Float32Of(baseColor[1]), Float32Of(baseColor[2]), Float32Of(baseColor[3]),
        Float32Of("0.9"),
        Float32Of("0.1"), Float32Of("0.1"), Float32Of("0.1"),
        Float32Of("1.0"), Float32Of("0.0"), Float32Of("0.0"), Float32Of("0.0") >>]

CreateGaussianData ==
  GenerateRing(1, "1.0", <<"0.8", "0.1", "0.1">>, RING_COUNT)
  \o GenerateRing(2, "-1.0", <<"0.1", "0.1", "0.8">>, RING_COUNT)

\* Buffer.alloc(size) with the bytes of data written from offset 0
AllocAndWrite(size, data) == [j \in 1..size |-> IF j <= Len(data) THEN data[j] ELSE 0]

\* generatePlyFile: the header of NUM_GAUSSIANS vertices, then the buffer
GeneratePlyFile ==
  [cfg |-> Config("lf", "little", "none", NUM_GAUSSIANS, FixturePropList, FALSE, TRUE, 0),
   header |-> HeaderBytes(Config("lf", "little", "none", NUM_GAUSSIANS, FixturePropList,
                                 FALSE, TRUE, 0)),
   body |-> AllocAndWrite(NUM_GAUSSIANS * BYTES_PER_VERTEX, WrittenBody(CreateGaussianData)),
   written |-> CreateGaussianData]

\* the float32 values written: NaN, both zeros, 1, 0.1, -1000, -0.5, Infinity
WrittenValues ==
  { Bin("float32", <<127, 192, 0, 0>>), Bin("float32", <<0, 0, 0, 0>>),
    Bin("float32", <<128, 0, 0, 0>>), Bin("float32", <<63, 128, 0, 0>>),
    Bin("float32", <<61, 204, 204, 205>>), Bin("float32", <<196, 122, 0, 0>>),
    Bin("float32", <<191, 0, 0, 0>>), Bin("float32", <<127, 128, 0, 0>>) }

\* a row of p and q in turn, so that every value is written at every index
WrittenRow(p, q) ==
  [k \in 1..Len(PropLists[WrittenPropList]) |-> IF k % 2 = 1 THEN p ELSE q]

\* one row, or a row and the row of the same values swapped
WrittenRowSets ==
  { <<WrittenRow(p, q)>> : p \in WrittenValues, q \in WrittenValues }
  \cup { <<WrittenRow(p, q), WrittenRow(q, p)>> : p \in WrittenValues, q \in WrittenValues }

Configs ==
  WellFormedConfigs \cup MultiElementConfigs \cup MalformedConfigs \cup RestConfigs
  \cup IntegerConfigs

(***************************************************************************)
(* The robot, the keyboard and the command socket.                         *)
(*                                                                         *)
(* An angle is [nan, v]: NaN, or v times Math.PI / 16, the turn of one key *)
(* press; the rounding of the additions is left out.  A coordinate of the  *)
(* position is the sequence of the terms subtracted from and added to 0,   *)
(* in the order of the additions, each term [op, distance, fn, rotation]   *)
(* standing for distance * Math.cos(rotation) or distance *                *)
(* Math.sin(rotation).                                                     *)
(***************************************************************************)
Angle(n) == [nan |-> FALSE, v |-> n]
NaNAngle == [nan |-> TRUE, v |-> 0]

\* this.moveSpeed and this.turnSpeed
MOVE_SPEED == "0.3"
TURN_SPEED == Angle(1)

\* a + b, a - b, Math.abs(a) and a > 0 of angles
AddAngle(a, b) == IF a.nan \/ b.nan THEN NaNAngle ELSE Angle(a.v + b.v)
SubAngle(a, b) == IF a.nan \/ b.nan THEN NaNAngle ELSE Angle(a.v - b.v)
MathAbs(a) == IF a.nan THEN NaNAngle ELSE Angle(IF a.v < 0 THEN 0 - a.v ELSE a.v)
GreaterThanZero(a) == ~a.nan /\ a.v > 0

\* new RobotController()
NewRobotController ==
  [position |-> [x |-> <<>>, y |-> <<>>, z |-> <<>>], rotation |-> Angle(0)]

Term(op, distance, fn, rotation) ==
  [op |-> op, distance |-> distance, fn |-> fn, rotation |-> rotation]

MoveForward(r, distance) ==
  [r EXCEPT !.position.z = Append(@, Term("-", distance, "cos", r.rotation)),
            !.position.x = Append(@, Term("-", distance, "sin", r.rotation))]

MoveBackward(r, distance) ==
  [r EXCEPT !.position.z = Append(@, Term("+", distance, "cos", r.rotation)),
            !.position.x = Append(@, Term("+", distance, "sin", r.rotation))]

\* a turn that adds the angle, as turnLeft does
TurnRightAdds(r, angle) == [r EXCEPT !.rotation = AddAngle(@, angle)]

TurnLeft(r, angle) == [r EXCEPT !.rotation = AddAngle(@, angle)]
TurnRight(r, angle) == [r EXCEPT !.rotation = SubAngle(@, angle)]

\* the canvas before anything is rendered, and the frame rendered of a robot:
\* cameraController.update() puts the camera behind the robot, renderer.render
\* draws what that camera sees
Blank == [blank |-> TRUE]
Render(r) == [blank |-> FALSE, position |-> r.position, rotation |-> r.rotation]

(***************************************************************************)
(* The messages of the command server.  JSON.parse is given by its result  *)
(* on each text: [threw, isNull, type, value]; the value of a command      *)
(* without one is undefined, which Math.abs and > read as NaN.             *)
(***************************************************************************)
Parsed(type, value) == [threw |-> FALSE, isNull |-> FALSE, type |-> type, value |-> value]

Messages ==
  { "{\"type\":\"forward\"}",
    "{\"type\":\"turn\",\"value\":0.19634954084936207}",
    "{\"type\":\"turn\",\"value\":-0.39269908169872414}",
    "{\"type\":\"turn\",\"value\":0}",
    "{\"type\":\"turn\"}",
    "{\"type\":\"stop\"}",
    "null",
    "forward" }

JsonParse(data) ==
  CASE data = "{\"type\":\"forward\"}" -> Parsed("forward", NaNAngle)
    [] data = "{\"type\":\"turn\",\"value\":0.19634954084936207}" -> Parsed("turn", Angle(1))
    [] data = "{\"type\":\"turn\",\"value\":-0.39269908169872414}" ->
         Parsed("turn", Angle(0 - 2))
    [] data = "{\"type\":\"turn\",\"value\":0}" -> Parsed("turn", Angle(0))
    [] data = "{\"type\":\"turn\"}" -> Parsed("turn", NaNAngle)
    [] data = "{\"type\":\"stop\"}" -> Parsed("stop", NaNAngle)
    [] data = "null" -> [threw |-> FALSE, isNull |-> TRUE, type |-> "", value |-> NaNAngle]
    [] OTHER -> [threw |-> TRUE, isNull |-> FALSE, type |-> "", value |-> NaNAngle]

\* the body of the try block up to the command: whether it throws (a
\* SyntaxError of JSON.parse, a TypeError of null.type)
Throws(data) == JsonParse(data).threw \/ JsonParse(data).isNull

\* the robot after the if / else if on cmd.type
ApplyCommand(r, cmd) ==
  IF cmd.type = "forward" THEN MoveForward(r, MOVE_SPEED)
  ELSE IF cmd.type = "turn"
  THEN (IF GreaterThanZero(cmd.value) THEN TurnLeft(r, MathAbs(cmd.value))
        ELSE TurnRight(r, MathAbs(cmd.value)))
  ELSE r

\* setTimeout(callback, 100) put before the timeouts waiting, and as it is:
\* after them, all having the same delay
SetTimeoutFirst(queue, callback) == <<callback>> \o queue

SetTimeout(queue, callback) == Append(queue, callback)

\* handleMovement: the robot after the four ifs on this.keys, and `moved`
Moved(held) ==
  held \cap {"ArrowUp", "KeyW", "ArrowDown", "KeyS", "ArrowLeft", "KeyA",
             "ArrowRight", "KeyD"} # {}

HandleMovement(r, held) ==
  LET r1 == IF held \cap {"ArrowUp", "KeyW"} # {} THEN MoveForward(r, MOVE_SPEED) ELSE r
      r2 == IF held \cap {"ArrowDown", "KeyS"} # {} THEN MoveBackward(r1, MOVE_SPEED) ELSE r1
      r3 == IF held \cap {"ArrowLeft", "KeyA"} # {} THEN TurnLeft(r2, TURN_SPEED) ELSE r2
  IN IF held \cap {"ArrowRight", "KeyD"} # {} THEN TurnRight(r3, TURN_SPEED) ELSE r3

(***************************************************************************)
(* The page of main.js: the camera, the scene and the point cloud loaded.  *)
(*                                                                         *)
(* The camera is where setupScene put it, behind a robot (CameraController *)
(* update: the robot's position plus the offset (0, 1.5, 3) turned about Y *)
(* by the robot's rotation), or above a loaded cloud (its centre plus      *)
(* (0, 0.3 d, 0.8 d), d its distance).  The last is never the second:      *)
(* 0.3 d = 1.5 and 0.8 d = 3 have no common d.  A cloud is named by the    *)
(* number of the load that gave it, an object_mode group by the click that *)
(* made it.                                                                *)
(***************************************************************************)
InitialCamera == [kind |-> "initial"]
CameraBehind(r) == [kind |-> "follow", position |-> r.position, rotation |-> r.rotation]
CameraOnScene(cloud) == [kind |-> "scene", cloud |-> cloud]

NoFrame == [rendered |-> FALSE]
EmptyScene == [points |-> {}, groups |-> {}]

\* a listener of window: the event and the function object registered
Listener(type, fn) == [type |-> type, fn |-> fn]

\* window.addEventListener and window.removeEventListener, which removes the
\* listener of that very function object and nothing else
AddEventListener(listeners, type, fn) == listeners \cup {Listener(type, fn)}
RemoveEventListener(listeners, type, fn) == listeners \ {Listener(type, fn)}

\* new KeyboardControls(...): bindEvents registers three arrow functions
\* made on the spot
NewKeyboardControls ==
  [isEnabled |-> TRUE, destroyed |-> FALSE,
   listeners |-> AddEventListener(AddEventListener(AddEventListener({},
                   "keydown", "bindEvents arrow 1"),
                   "keyup", "bindEvents arrow 2"),
                   "blur", "bindEvents arrow 3")]

\* whether an event of that type reaches a listener of the controls
Listens(controls, type) == \E l \in controls.listeners : l.type = type

NewPage ==
  [camera |-> InitialCamera, frame |-> NoFrame, scene |-> EmptyScene,
   currentPointCloud |-> 0, loads |-> <<>>, clicks |-> 0,
   controls |-> NewKeyboardControls]

\* cameraController.update()
CameraControllerUpdate(pg, r) == [pg EXCEPT !.camera = CameraBehind(r)]

\* renderer.render(scene, camera): what is drawn, from where, of which robot
RenderFrame(pg, r) ==
  [pg EXCEPT !.frame = [rendered |-> TRUE, camera |-> pg.camera, robot |-> r,
                        scene |-> pg.scene]]

\* the canvas after renderer.render with that camera
RenderWith(camera, r) ==
  IF camera = CameraBehind(r) THEN Render(r)
  ELSE [blank |-> FALSE, position |-> r.position, rotation |-> r.rotation,
        camera |-> camera]

\* robot.setPosition(x, y, z) and robot.setRotation(rotation)
SetPosition(r, x, y, z) == [r EXCEPT !.position = [x |-> x, y |-> y, z |-> z]]
SetRotation(r, rotation) == [r EXCEPT !.rotation = rotation]

\* a coordinate of the centre of the bounding box of a cloud
Center(cloud, axis) == <<[op |-> "+", center |-> cloud, axis |-> axis]>>

\* renderGaussianSplatting that removes nothing before it adds the cloud
RenderGaussianSplattingKeeps(scene, pointCloud) ==
  [points |-> scene.points \cup {pointCloud}, groups |-> scene.groups]

\* renderGaussianSplatting: every Points and every object_mode group is
\* removed, the cloud is added
RenderGaussianSplatting(scene, pointCloud) ==
  [points |-> (scene.points \ {c \in scene.points : TRUE}) \cup {pointCloud},
   groups |-> scene.groups \ {g \in scene.groups : TRUE}]

\* renderObjectMode: the same removals, a new group is added
RenderObjectMode(scene, group) ==
  [points |-> scene.points \ {c \in scene.points : TRUE},
   groups |-> (scene.groups \ {g \in scene.groups : TRUE}) \cup {group}]

\* what loadPLY settles with
LoadOutcomes == {"gaussian", "standard_ply", "rejected"}

(***************************************************************************)
(* evaluateSphericalHarmonics of the two materials (the same text in       *)
(* both).  The numbers of the shader are counted in thousandths, the       *)
(* coefficients rounded to the thousandth: 0.5 is 500, 1.0 is 1000.  The   *)
(* inputs are whole numbers, so every product below is exact.              *)
(***************************************************************************)
SH_C0 == 282      \* 0.28209479177387814
SH_C1 == 489      \* 0.48860251190291987
SH_C2_XY == 1093  \* 1.0925484305920792
SH_C2_ZZ == 946   \* 0.94617469575755997
SH_C2_XX == 546   \* 0.54627421529603959

\* a * b of two numbers in thousandths
Mul(a, b) == (a * b) \div 1000

\* clamp(color, 0.0, 1.0)
Clamp(color) ==
  [c \in 1..3 |-> IF color[c] < 0 THEN 0 ELSE IF color[c] > 1000 THEN 1000 ELSE color[c]]

\* color after the DC term; rest[g] is the attribute sh_rest_<3g-3>_<3g-1>
DegreeZero(dc) == [c \in 1..3 |-> 500 + Mul(SH_C0, dc[c])]

DegreeOne(color, dir, rest) ==
  [c \in 1..3 |->
     color[c] + Mul(Mul(0 - SH_C1, dir[2]), rest[1][c])
              + Mul(Mul(SH_C1, dir[3]), rest[2][c])
              + Mul(Mul(0 - SH_C1, dir[1]), rest[3][c])]

DegreeTwo(color, dir, rest) ==
  LET xx == Mul(dir[1], dir[1])
      yy == Mul(dir[2], dir[2])
      zz == Mul(dir[3], dir[3])
      xy == Mul(dir[1], dir[2])
      yz == Mul(dir[2], dir[3])
      xz == Mul(dir[1], dir[3])
  IN [c \in 1..3 |->
        color[c] + Mul(Mul(SH_C2_XY, xy), rest[4][c])
                 + Mul(Mul(0 - SH_C2_XY, yz), rest[5][c])
                 + Mul(Mul(SH_C2_ZZ, 2 * zz - xx - yy), rest[6][c])
                 + Mul(Mul(0 - SH_C2_XY, xz), rest[7][c])
                 + Mul(Mul(SH_C2_XX, xx - yy), rest[8][c])]

EvaluateSphericalHarmonics(dir, dc, rest, degree) ==
  IF degree < 1 THEN Clamp(DegreeZero(dc))
  ELSE IF degree < 2 THEN Clamp(DegreeOne(DegreeZero(dc), dir, rest))
  ELSE DegreeTwo(DegreeOne(DegreeZero(dc), dir, rest), dir, rest)

(***************************************************************************)
(* The state: a GaussianSplatLoader, the file it loads and the promise     *)
(* returned by load(file); and, for processVertex alone, one raw vertex    *)
(* and the splat made of it.                                               *)
(***************************************************************************)
VARIABLES
  file,          \* the file chosen: its configuration, header bytes and body bytes
  buffer,        \* event.target.result: the bytes of the file
  littleEndian,  \* this.littleEndian
  promise,       \* the promise of load(): [state, mesh, error]
  logged,        \* the header written by console.log('PLY Header:', header)
  loadPLY,       \* the promise of loadPLY(file) and how far the function has come
  vertex,        \* a raw vertex handed to processVertex
  splat,         \* what processVertex returned: [done, value]
  points,        \* what createGaussianSplatMesh made of that one splat: [done, mesh]
  shader,        \* one run of the vertex shader's colour: its inputs, [done, color]
  robot,         \* the RobotController: [position, rotation]
  keys,          \* KeyboardControls.keys: the codes of the keys held down
  canvas,        \* renderer.domElement: the frame last rendered
  timers,        \* the timeouts set and not yet run, in the order they run
  sent,          \* the messages given to socket.send that the socket took
  received,      \* the messages onmessage has handled, each with the robot
                 \* before and after it and whether it set a timeout
  readyState,    \* socket.readyState: "open" or "closed"
  keydowns,      \* how many keydown events there have been
  page,          \* the page of main.js: [camera, frame, scene, currentPointCloud,
                 \* loads, clicks, controls]
  server         \* the connections of the command server, each [readyState,
                 \* timeout, commandInterval, interval, ticks, sent]

loaderVars == <<file, buffer, littleEndian, promise, logged, loadPLY>>
vertexVars == <<vertex, splat, points, shader>>
socketVars == <<robot, keys, canvas, timers, sent, received, readyState, keydowns, page>>
relayVars == <<server>>
vars == <<loaderVars, vertexVars, socketVars, relayVars>>

\* the page before any command or key
InitSocketVars ==
  /\ robot = NewRobotController
  /\ keys = {}
  /\ canvas = Blank
  /\ timers = <<>>
  /\ sent = <<>>
  /\ received = <<>>
  /\ readyState = "open"
  /\ keydowns = 0
  /\ page = NewPage

Pending == [state |-> "pending", mesh |-> NoMesh, error |-> "none"]
Fulfilled(mesh) == [state |-> "fulfilled", mesh |-> mesh, error |-> "none"]
Rejected(error) == [state |-> "rejected", mesh |-> NoMesh, error |-> error]

NoSplat == [done |-> FALSE, value |-> ProcessVertex(<<>>)]

(***************************************************************************)
(* loadPLY(file): [state, stage, fallbacks, value].  stage is "gaussian"   *)
(* while loader.load(file) is awaited and "fallback" once the catch block  *)
(* has started its FileReader; fallbacks counts the fallbacks started.     *)
(***************************************************************************)
NoValue == [type |-> "none"]
\* the THREE.Points of the fallback, userData = { type: 'standard_ply' }
StandardPly == [type |-> "standard_ply"]
GaussianMesh(mesh) == [type |-> "gaussian", mesh |-> mesh]

CallLoadPLY == [state |-> "pending", stage |-> "gaussian", fallbacks |-> 0, value |-> NoValue]

Settle(l, state, value) == [l EXCEPT !.state = state, !.value = value]

\* a loadPLY that runs its fallback whatever the first decode gave
AfterAwaitAlwaysFallback(l, p) == [l EXCEPT !.stage = "fallback", !.fallbacks = @ + 1]

\* the try block after the await, or the catch block up to readAsArrayBuffer
AfterAwait(l, p) ==
  IF p.state = "fulfilled" THEN Settle(l, "resolved", GaussianMesh(p.mesh))
  ELSE [l EXCEPT !.stage = "fallback", !.fallbacks = @ + 1]
NoPoints == [done |-> FALSE, mesh |-> NoMesh]
NoShader ==
  [material |-> "covariance", dir |-> <<0, 0, 0>>, dc |-> <<0, 0, 0>>,
   rest |-> [g \in 1..SH_REST_GROUPS |-> <<0, 0, 0>>], degree |-> 0,
   done |-> FALSE, color |-> <<0, 0, 0>>]

\* new GaussianSplatLoader() and load(file) up to reader.readAsArrayBuffer(file)
Init ==
  /\ file \in {FileOf(cfg) : cfg \in Configs} \cup {WrittenFile(rows) : rows \in WrittenRowSets}
            \cup {GeneratePlyFile} \cup AsciiFiles
  /\ buffer = file.header \o file.body
  /\ littleEndian = TRUE
  /\ promise = Pending
  /\ loadPLY = CallLoadPLY
  /\ logged = HeaderInit
  /\ vertex = <<>>
  /\ splat = NoSplat
  /\ points = NoPoints
  /\ shader = NoShader
  /\ InitSocketVars
  /\ server = <<>>

\* reader.onload: parse the buffer, resolve with the mesh or reject with what
\* parse threw
ReaderOnLoad ==
  /\ promise.state = "pending"
  /\ \E r \in {Parse(buffer, littleEndian)} :
       /\ littleEndian' = r.littleEndian
       /\ logged' = r.header
       /\ promise' = IF r.threw THEN Rejected("RangeError") ELSE Fulfilled(r.mesh)
  /\ UNCHANGED <<file, buffer, loadPLY, vertexVars, socketVars, relayVars>>

\* reader.onerror
ReaderOnError ==
  /\ promise.state = "pending"
  /\ promise' = Rejected("Failed to read file")
  /\ UNCHANGED <<file, buffer, littleEndian, logged, loadPLY, vertexVars, socketVars, relayVars>>

\* loadPLY after `await loader.load(file)`: the mesh returned, or the catch
\* block begun
LoadPLYAwait ==
  /\ promise.state # "pending"
  /\ loadPLY.state = "pending"
  /\ loadPLY.stage = "gaussian"
  /\ loadPLY' = AfterAwait(loadPLY, promise)
  /\ UNCHANGED <<file, buffer, littleEndian, promise, logged, vertexVars, socketVars, relayVars>>

\* reader.onload of the fallback: THREE.PLYLoader.parse and the calls after it
\* return, and the points are resolved, or one of them throws
FallbackOnLoad ==
  /\ loadPLY.state = "pending"
  /\ loadPLY.stage = "fallback"
  /\ \E threw \in BOOLEAN :
       loadPLY' = IF threw THEN Settle(loadPLY, "rejected", NoValue)
                  ELSE Settle(loadPLY, "resolved", StandardPly)
  /\ UNCHANGED <<file, buffer, littleEndian, promise, logged, vertexVars, socketVars, relayVars>>

\* reader.onerror of the fallback
FallbackOnError ==
  /\ loadPLY.state = "pending"
  /\ loadPLY.stage = "fallback"
  /\ loadPLY' = Settle(loadPLY, "rejected", NoValue)
  /\ UNCHANGED <<file, buffer, littleEndian, promise, logged, vertexVars, socketVars, relayVars>>

Next == ReaderOnLoad \/ ReaderOnError \/ LoadPLYAwait \/ FallbackOnLoad \/ FallbackOnError

(***************************************************************************)
(* One GaussianSplatLoader given one file after another: load is called    *)
(* again on the same instance once the promise of the call before has      *)
(* settled.  The files are those with and without a format line, of        *)
(* integer and of float properties.                                        *)
(***************************************************************************)
ReusedLoaderFiles ==
  {FileOf(cfg) : cfg \in MalformedConfigs \cup IntegerConfigs \cup RestConfigs}

InitReuse ==
  /\ file \in ReusedLoaderFiles
  /\ buffer = file.header \o file.body
  /\ littleEndian = TRUE
  /\ promise = Pending
  /\ loadPLY = CallLoadPLY
  /\ logged = HeaderInit
  /\ vertex = <<>>
  /\ splat = NoSplat
  /\ points = NoPoints
  /\ shader = NoShader
  /\ InitSocketVars
  /\ server = <<>>

\* loader.load(file) on the loader that has loaded before: a new promise and a
\* new reader, this.littleEndian as the last parse left it
LoadAgain ==
  /\ promise.state # "pending"
  /\ file' \in ReusedLoaderFiles
  /\ buffer' = file'.header \o file'.body
  /\ promise' = Pending
  /\ logged' = HeaderInit
  /\ UNCHANGED <<littleEndian, loadPLY, vertexVars, socketVars, relayVars>>

NextReuse == ReaderOnLoad \/ ReaderOnError \/ LoadAgain

SpecReuse == InitReuse /\ [][NextReuse]_vars

Spec == Init /\ [][Next]_vars

(***************************************************************************)
(* processVertex on its own: the raw vertices it is given.  A raw vertex   *)
(* holds, for each property read, a number: here float32 values (NaN, the  *)
(* two zeros, the infinities, small and large values of both signs) and    *)
(* uchar values.                                                           *)
(***************************************************************************)
F32(b1, b2, b3, b4) == Bin("float32", <<b1, b2, b3, b4>>)

F32_NaN == F32(127, 192, 0, 0)
F32_Zero == F32(0, 0, 0, 0)
F32_MinusZero == F32(128, 0, 0, 0)
F32_One == F32(63, 128, 0, 0)
F32_Tenth == F32(61, 204, 204, 205)          \* 0.1
F32_Thousand == F32(68, 122, 0, 0)           \* 1000
F32_MinusThousand == F32(196, 122, 0, 0)     \* -1000: exp gives 0
F32_Minus720 == F32(196, 52, 0, 0)           \* -720: exp gives a denormal
F32_MinusHalf == F32(191, 0, 0, 0)           \* -0.5
F32_PlusInfinity == F32(127, 128, 0, 0)
F32_MinusInfinity == F32(255, 128, 0, 0)

\* what a property of a raw vertex may hold; Undefined: the vertex has no such property
ScalarValues ==
  {Undefined, F32_NaN, F32_Zero, F32_MinusZero, F32_One, F32_Tenth, F32_Thousand,
   F32_MinusThousand, F32_Minus720, F32_MinusHalf, F32_PlusInfinity, F32_MinusInfinity}

DcValues == {Undefined, F32_NaN, F32_Zero, F32_One, F32_MinusHalf}

RECURSIVE VertexOf(_)
\* the object with the given <<name, value>> properties, those of value
\* Undefined left out
VertexOf(pairs) ==
  IF pairs = <<>> THEN <<>>
  ELSE LET rest == VertexOf(SubSeq(pairs, 1, Len(pairs) - 1))
           last == pairs[Len(pairs)]
       IN IF last[2] = Undefined THEN rest ELSE Put(rest, last[1], last[2])

ScaleNames == << <<S_scale_0, S_scale_x>>, <<S_scale_1, S_scale_y>>, <<S_scale_2, S_scale_z>> >>

ScaleVertices ==
  { VertexOf(<< <<ScaleNames[i][1], a>>, <<ScaleNames[i][2], b>> >>) :
      i \in 1..3, a \in ScalarValues, b \in ScalarValues }

OpacityVertices ==
  { VertexOf(<< <<S_opacity, a>>, <<S_alpha, b>> >>) :
      a \in ScalarValues, b \in ScalarValues \cup {Bin("uint8", <<200>>)} }

ColorVertices ==
  { VertexOf(<< <<S_f_dc_0, d0>>, <<S_f_dc_1, d1>>, <<S_f_dc_2, d2>>,
                <<S_red, c8[1]>>, <<S_green, c8[2]>>, <<S_blue, c8[3]>>,
                <<S_r, c1[1]>>, <<S_g, c1[2]>>, <<S_b, c1[3]>> >>) :
      d0 \in DcValues, d1 \in DcValues, d2 \in DcValues,
      c8 \in {Undefined, Bin("uint8", <<255>>)} \X {Undefined, Bin("uint8", <<0>>)}
             \X {Undefined, Bin("uint8", <<0>>)},
      c1 \in {Undefined, F32_One} \X {Undefined, F32_Zero} \X {Undefined, F32_Tenth} }

Vertices == ScaleVertices \cup OpacityVertices \cup ColorVertices

InitVertex ==
  /\ vertex \in Vertices
  /\ splat = NoSplat
  /\ points = NoPoints
  /\ shader = NoShader
  /\ file = FileOf(Config("lf", "little", "none", 0, 1, FALSE, TRUE, 0))
  /\ buffer = file.header \o file.body
  /\ littleEndian = TRUE
  /\ promise = Pending
  /\ loadPLY = CallLoadPLY
  /\ logged = HeaderInit
  /\ InitSocketVars
  /\ server = <<>>

\* vertices.push(this.processVertex(vertex))
ProcessVertexCall ==
  /\ ~splat.done
  /\ splat' = [done |-> TRUE, value |-> ProcessVertex(vertex)]
  /\ UNCHANGED <<relayVars, loaderVars, vertex, points, shader, socketVars>>

\* this.createGaussianSplatMesh(vertices, header) on the list of that one splat
CreateMeshCall ==
  /\ splat.done
  /\ ~points.done
  /\ points' = [done |-> TRUE, mesh |-> CreateGaussianSplatMesh(<<splat.value>>, logged)]
  /\ UNCHANGED <<relayVars, loaderVars, vertex, splat, shader, socketVars>>

NextVertex == ProcessVertexCall \/ CreateMeshCall

SpecVertex == InitVertex /\ [][NextVertex]_vars

(***************************************************************************)
(* The colour of one splat in the vertex shader: vColor =                  *)
(* evaluateSphericalHarmonics(vCameraDir, sh_dc, harmonicDegree), for      *)
(* directions along and between the axes, DC colours inside and outside    *)
(* the unit range, and rest coefficients that differ by their index.       *)
(***************************************************************************)
MaxDegree == 3

Directions ==
  {<<1000, 0, 0>>, <<0, 1000, 0>>, <<0, 0, 1000>>, <<0, 0 - 1000, 0>>,
   <<1000, 1000, 1000>>, <<1000, 0 - 1000, 2000>>}

DcColours == {<<0, 0, 0>>, <<1000, 0 - 1000, 0>>, <<10000, 0, 0 - 10000>>}

RestCoefficients ==
  { [g \in 1..SH_REST_GROUPS |-> <<0, 0, 0>>],
    [g \in 1..SH_REST_GROUPS |-> <<1000, 1000, 1000>>],
    [g \in 1..SH_REST_GROUPS |-> [c \in 1..3 |-> 1000 * (3 * (g - 1) + c)]],
    [g \in 1..SH_REST_GROUPS |-> [c \in 1..3 |-> 0 - 100 * (3 * (g - 1) + c)]] }

InitShader ==
  /\ shader \in { [NoShader EXCEPT !.material = m, !.dir = dir, !.dc = dc, !.rest = rest,
                                   !.degree = degree] :
                    m \in {"covariance", "ellipse"}, dir \in Directions, dc \in DcColours,
                    rest \in RestCoefficients, degree \in 0..MaxDegree }
  /\ vertex = <<>>
  /\ splat = NoSplat
  /\ points = NoPoints
  /\ file = FileOf(Config("lf", "little", "none", 0, 1, FALSE, TRUE, 0))
  /\ buffer = file.header \o file.body
  /\ littleEndian = TRUE
  /\ promise = Pending
  /\ loadPLY = CallLoadPLY
  /\ logged = HeaderInit
  /\ InitSocketVars
  /\ server = <<>>

\* main() of the vertex shader of either material, as far as vColor
ShaderMain ==
  /\ ~shader.done
  /\ shader' = [shader EXCEPT !.done = TRUE,
                              !.color = EvaluateSphericalHarmonics(shader.dir, shader.dc,
                                                                   shader.rest, shader.degree)]
  /\ UNCHANGED <<relayVars, loaderVars, vertex, splat, points, socketVars>>

NextShader == ShaderMain

SpecShader == InitShader /\ [][NextShader]_vars

(***************************************************************************)
(* The page with its socket open: commands arrive, keys go down and up,    *)
(* timeouts run.  The loader is left alone.                                *)
(***************************************************************************)
MaxEvents == 3

KeyCodes == {"ArrowUp"}

InitSocket ==
  /\ InitSocketVars
  /\ server = <<>>
  /\ vertex = <<>>
  /\ splat = NoSplat
  /\ points = NoPoints
  /\ shader = NoShader
  /\ file = FileOf(Config("lf", "little", "none", 0, 1, FALSE, TRUE, 0))
  /\ buffer = file.header \o file.body
  /\ littleEndian = TRUE
  /\ promise = Pending
  /\ loadPLY = CallLoadPLY
  /\ logged = HeaderInit

\* socket.onmessage: a message that throws in the try block is logged and
\* changes nothing; any other applies its command, updates the camera,
\* renders and sets the timeout that sends the image
\* the events so far of those counted against MaxEvents
Events == Len(received) + keydowns + page.clicks

SocketOnMessage ==
  /\ readyState = "open"
  /\ Events < MaxEvents
  /\ \E data \in Messages :
       IF Throws(data)
       THEN /\ received' = Append(received, [data |-> data, before |-> robot,
                                             after |-> robot, timeout |-> FALSE])
            /\ UNCHANGED <<robot, canvas, timers, page>>
       ELSE /\ robot' = ApplyCommand(robot, JsonParse(data))
            /\ page' = RenderFrame(CameraControllerUpdate(page, robot'), robot')
            /\ canvas' = RenderWith(page'.camera, robot')
            /\ timers' = SetTimeout(timers, [command |-> Len(received) + 1])
            /\ received' = Append(received, [data |-> data, before |-> robot,
                                             after |-> robot', timeout |-> TRUE])
  /\ UNCHANGED <<relayVars, loaderVars, vertexVars, keys, sent, readyState, keydowns>>

\* the callback of the timeout set first: the image of the canvas as it is
\* now, sent if the socket is open and dropped if it has closed
TimeoutCallback ==
  /\ timers # <<>>
  /\ timers' = Tail(timers)
  /\ sent' = IF readyState = "open"
             THEN Append(sent, [type |-> "image", data |-> canvas,
                                command |-> Head(timers).command])
             ELSE sent
  /\ UNCHANGED <<relayVars, loaderVars, vertexVars, robot, keys, canvas, received, readyState, keydowns, page>>

\* onKeyDown: the key is held, then handleMovement
OnKeyDown ==
  /\ Events < MaxEvents
  /\ Listens(page.controls, "keydown")
  /\ keydowns' = keydowns + 1
  /\ IF ~page.controls.isEnabled
     THEN UNCHANGED <<keys, robot, page, canvas>>
     ELSE \E code \in KeyCodes :
            /\ keys' = keys \cup {code}
            /\ robot' = HandleMovement(robot, keys')
            /\ page' = IF Moved(keys')
                       THEN RenderFrame(CameraControllerUpdate(page, robot'), robot')
                       ELSE page
            /\ canvas' = IF Moved(keys') THEN RenderWith(page'.camera, robot') ELSE canvas
  /\ UNCHANGED <<relayVars, loaderVars, vertexVars, timers, sent, received, readyState>>

OnKeyUp ==
  /\ Listens(page.controls, "keyup")
  /\ \E code \in keys : keys' = keys \ {code}
  /\ UNCHANGED <<relayVars, loaderVars, vertexVars, robot, canvas, timers, sent, received, readyState, keydowns, page>>

\* the blur listener: this.keys.clear()
OnBlur ==
  /\ Listens(page.controls, "blur")
  /\ keys # {}
  /\ keys' = {}
  /\ UNCHANGED <<relayVars, loaderVars, vertexVars, robot, canvas, timers, sent, received, readyState, keydowns, page>>

\* socket.onclose
SocketOnClose ==
  /\ readyState = "open"
  /\ readyState' = "closed"
  /\ UNCHANGED <<relayVars, loaderVars, vertexVars, robot, keys, canvas, timers, sent, received, keydowns, page>>

NextSocket ==
  SocketOnMessage \/ TimeoutCallback \/ OnKeyDown \/ OnKeyUp \/ OnBlur \/ SocketOnClose

SpecSocket == InitSocket /\ [][NextSocket]_vars

\* a timeout that is set runs: the event loop runs every callback that is due
SpecSocketLive == SpecSocket /\ WF_vars(TimeoutCallback)

(***************************************************************************)
(* The page: the socket and the keyboard as above, and the file input, the *)
(* reset button and the material selector of main.js.                      *)
(***************************************************************************)
MaxLoads == 2

RenderModes == {"object", "gaussian", "ellipse", "simple"}

\* the change listener of plyLoader up to `await loadPLY(file)`
PlyLoaderChange ==
  /\ Events < MaxEvents
  /\ Len(page.loads) < MaxLoads
  /\ page' = [page EXCEPT !.loads = Append(@, "pending"), !.clicks = @ + 1]
  /\ UNCHANGED <<relayVars, loaderVars, vertexVars, robot, keys, canvas, timers, sent, received,
                 readyState, keydowns>>

\* loadPLY(file) of load i settles and the listener goes on after the await:
\* with the cloud, or in its catch block
PlyLoaderAfterAwait ==
  \E i \in 1..Len(page.loads), outcome \in LoadOutcomes :
    /\ page.loads[i] = "pending"
    /\ IF outcome = "rejected"
       THEN /\ page' = [page EXCEPT !.loads[i] = outcome]
            /\ UNCHANGED <<robot, canvas>>
       ELSE /\ robot' = SetPosition(robot, Center(i, "x"), Center(i, "y"), Center(i, "z"))
            /\ page' = RenderFrame([page EXCEPT !.loads[i] = outcome,
                                                !.currentPointCloud = i,
                                                !.scene = RenderGaussianSplatting(@, i),
                                                !.camera = CameraOnScene(i)],
                                   robot')
            /\ canvas' = RenderWith(page'.camera, robot')
    /\ UNCHANGED <<relayVars, loaderVars, vertexVars, keys, timers, sent, received, readyState,
                   keydowns>>

\* the click listener of resetBtn
ResetClick ==
  /\ Events < MaxEvents
  /\ robot' = SetRotation(SetPosition(robot, <<>>, <<>>, <<>>), Angle(0))
  /\ page' = RenderFrame(CameraControllerUpdate([page EXCEPT !.clicks = @ + 1], robot'),
                         robot')
  /\ canvas' = RenderWith(page'.camera, robot')
  /\ UNCHANGED <<relayVars, loaderVars, vertexVars, keys, timers, sent, received, readyState,
                 keydowns>>

\* the change listener of materialSelector
MaterialSelectorChange ==
  /\ Events < MaxEvents
  /\ \E mode \in RenderModes :
       IF page.currentPointCloud = 0
       THEN /\ page' = [page EXCEPT !.clicks = @ + 1]
            /\ UNCHANGED canvas
       ELSE /\ page' = RenderFrame(
                         [page EXCEPT
                            !.clicks = @ + 1,
                            !.scene = IF mode = "object"
                                      THEN RenderObjectMode(@, page.clicks + 1)
                                      ELSE RenderGaussianSplatting(
                                             @, page.currentPointCloud)],
                         robot)
            /\ canvas' = RenderWith(page'.camera, robot)
  /\ UNCHANGED <<relayVars, loaderVars, vertexVars, robot, keys, timers, sent, received, readyState,
                 keydowns>>

NextPage ==
  \/ SocketOnMessage
  \/ TimeoutCallback
  \/ OnKeyDown
  \/ OnKeyUp
  \/ OnBlur
  \/ SocketOnClose
  \/ PlyLoaderChange
  \/ PlyLoaderAfterAwait
  \/ ResetClick
  \/ MaterialSelectorChange

SpecPage == InitSocket /\ [][NextPage]_vars

(***************************************************************************)
(* The page with the rest of the interface of KeyboardControls called on   *)
(* it: enable, disable and destroy.                                        *)
(***************************************************************************)
\* keyboardControls.enable()
Enable ==
  /\ ~page.controls.isEnabled
  /\ page' = [page EXCEPT !.controls.isEnabled = TRUE]
  /\ UNCHANGED <<relayVars, loaderVars, vertexVars, robot, keys, canvas, timers, sent, received,
                 readyState, keydowns>>

\* keyboardControls.disable()
Disable ==
  /\ page.controls.isEnabled
  /\ page' = [page EXCEPT !.controls.isEnabled = FALSE]
  /\ keys' = {}
  /\ UNCHANGED <<relayVars, loaderVars, vertexVars, robot, canvas, timers, sent, received,
                 readyState, keydowns>>

\* keyboardControls.destroy(): removeEventListener is given the methods
\* this.onKeyDown and this.onKeyUp and a new arrow function
Destroy ==
  /\ ~page.controls.destroyed
  /\ page' = [page EXCEPT
                !.controls.destroyed = TRUE,
                !.controls.listeners =
                   RemoveEventListener(RemoveEventListener(RemoveEventListener(@,
                     "keydown", "this.onKeyDown"),
                     "keyup", "this.onKeyUp"),
                     "blur", "destroy arrow")]
  /\ UNCHANGED <<relayVars, loaderVars, vertexVars, robot, keys, canvas, timers, sent, received,
                 readyState, keydowns>>

NextControls ==
  \/ SocketOnMessage
  \/ TimeoutCallback
  \/ OnKeyDown
  \/ OnKeyUp
  \/ OnBlur
  \/ Enable
  \/ Disable
  \/ Destroy

SpecControls == InitSocket /\ [][NextControls]_vars

(***************************************************************************)
(* The command server: wss.on('connection') and the timers and listeners   *)
(* it sets for the connection.  A connection is OPEN when the server gets  *)
(* it, CLOSING once either side has begun to close it, and CLOSED when its *)
(* close event is emitted.  timeout: the 2-second timeout is still to run; *)
(* commandInterval: the variable of that name; interval: the periodic      *)
(* timer is scheduled; ticks: how often it has run.                        *)
(***************************************************************************)
MaxConnections == 2
MaxTicks == 2

\* the commands the periodic timer picks from with Math.random()
Commands == {"forward", "turn Math.PI / 8", "turn -Math.PI / 8"}

\* ws.send(data), recorded with the readyState it was called in
Send(ws, data) == [ws EXCEPT !.sent = Append(@, [data |-> data, readyState |-> ws.readyState])]

\* the connection listener: the listeners are set and the timeout is started
OnConnection ==
  /\ Len(server) < MaxConnections
  /\ server' = Append(server, [readyState |-> "OPEN", timeout |-> TRUE,
                               commandInterval |-> "undefined", interval |-> FALSE,
                               ticks |-> 0, sent |-> <<>>])
  /\ UNCHANGED <<loaderVars, vertexVars, socketVars>>

\* the callback of setTimeout(..., 2000)
StartCommands ==
  \E c \in 1..Len(server) :
    /\ server[c].timeout
    /\ server' = [server EXCEPT
                    ![c] = [(IF @.readyState = "OPEN" THEN Send(@, "forward") ELSE @)
                            EXCEPT !.timeout = FALSE, !.commandInterval = "set",
                                   !.interval = TRUE]]
    /\ UNCHANGED <<loaderVars, vertexVars, socketVars>>

\* the callback of setInterval(..., 30000)
IntervalCallback ==
  \E c \in 1..Len(server), command \in Commands :
    /\ server[c].interval
    /\ server[c].ticks < MaxTicks
    /\ server' = [server EXCEPT
                    ![c] = [(IF @.readyState = "OPEN" THEN Send(@, command) ELSE @)
                            EXCEPT !.ticks = @ + 1]]
    /\ UNCHANGED <<loaderVars, vertexVars, socketVars>>

\* the closing handshake begins, by the client or by the server
BeginClose ==
  \E c \in 1..Len(server) :
    /\ server[c].readyState = "OPEN"
    /\ server' = [server EXCEPT ![c].readyState = "CLOSING"]
    /\ UNCHANGED <<loaderVars, vertexVars, socketVars>>

\* the second close listener: if (commandInterval) clearInterval(commandInterval)
ClearInterval(ws) ==
  IF ws.commandInterval = "set" THEN [ws EXCEPT !.interval = FALSE] ELSE ws

\* the close event of a connection: it is CLOSED, its close listeners run
OnClose ==
  \E c \in 1..Len(server) :
    /\ server[c].readyState # "CLOSED"
    /\ server' = [server EXCEPT ![c] = ClearInterval([@ EXCEPT !.readyState = "CLOSED"])]
    /\ UNCHANGED <<loaderVars, vertexVars, socketVars>>

NextRelay == OnConnection \/ StartCommands \/ IntervalCallback \/ BeginClose \/ OnClose

SpecRelay == InitSocket /\ [][NextRelay]_vars

(***************************************************************************)
(* The properties checked of the loader (Spec).                            *)
(*                                                                         *)
(* Loaded: reader.onload has run, so the promise holds what parse gave.    *)
(***************************************************************************)
Loaded == promise.state = "fulfilled" \/ promise.error = "RangeError"

BinaryFile == file.cfg.fmt \in {"little", "big"}

\* N and R as the header declares them under `element vertex`
DeclaredCount == file.cfg.count
DeclaredProperties == PropLists[file.cfg.props]
RecordSize == DeclaredRecordSize(DeclaredProperties)

\* the first byte after the newline that ends the header
HeaderByteLength == Len(file.header)

\* the raw vertex held by record i of the file: its properties read at
\* HeaderByteLength + i * R, in the byte order the header names
RecordAt(i) ==
  ReadRecord(buffer, HeaderByteLength + i * RecordSize,
             CreatePropertyMap(logged.properties), 1, file.cfg.fmt = "little", <<>>).vertex

\* C1: a binary file whose header declares N vertices of record size R and
\* that holds at least N*R bytes after the header loads as exactly N splats,
\* splat i being the one decoded from the record at byte
\* headerByteLength + i*R, in file order.
C1_SplatPerRecordInFileOrder ==
  (/\ Loaded
   /\ BinaryFile
   /\ file.cfg.end
   /\ ~file.cfg.face
   /\ DeclaredCount >= 0
   /\ Len(file.body) >= DeclaredCount * RecordSize)
  => /\ promise.state = "fulfilled"
     /\ Len(promise.mesh.vertices) = DeclaredCount
     /\ \A i \in 0..(DeclaredCount - 1) :
          promise.mesh.vertices[i + 1] = ProcessVertex(RecordAt(i))

\* C2: a binary load either finds headerByteLength + N*R equal to the length
\* of the buffer or ends in an error; in particular a file cut short
\* (N*R more than the bytes after the header) gives an error and no mesh.
C2_ExactLengthOrError ==
  (/\ Loaded
   /\ BinaryFile
   /\ file.cfg.end
   /\ ~file.cfg.face
   /\ DeclaredCount >= 0)
  => /\ \/ HeaderByteLength + DeclaredCount * RecordSize = Len(buffer)
        \/ promise.state = "rejected"
     /\ DeclaredCount * RecordSize > Len(file.body) => promise.state = "rejected"

\* C3: a buffer whose header has no end_header line, or no
\* `element vertex <count>` line, is refused: parse returns no mesh for it.
C3_MalformedHeaderRefused ==
  (Loaded /\ (~file.cfg.end \/ DeclaredCount < 0)) => promise.state = "rejected"

\* C4: for a buffer with an end_header line, headerLength is the byte offset
\* of the first byte after the newline that ends end_header, whatever white
\* space, carriage returns, lines before `ply` or bytes of comments the
\* header holds.
C4_HeaderLengthIsByteOffset ==
  (Loaded /\ file.cfg.end) => logged.headerLength = HeaderByteLength

\* C5: the property lines of an element other than vertex add nothing to the
\* vertex property list, so the record size is that of the properties
\* declared under `element vertex`.
C5_OnlyVertexProperties ==
  (Loaded /\ file.cfg.end /\ file.cfg.face)
  => /\ Len(logged.properties) = Len(DeclaredProperties)
     /\ VertexSize(CreatePropertyMap(logged.properties)) = RecordSize

\* the sum of the widths of the properties before the k-th
RECURSIVE WidthsBefore(_, _)
WidthsBefore(properties, k) ==
  IF k <= 1 THEN 0
  ELSE WidthsBefore(properties, k - 1) + TypeWidth(properties[k - 1].type.s)

\* C6: createPropertyMap gives each declared property the offset that is the
\* sum of the widths of the properties declared before it (float 4, double 8,
\* int/uint 4, short/ushort 2, char/uchar 1, any other type 4) and the record
\* size that is the sum of all the widths, also for a list with a repeated
\* name or with a property named vertexSize.
C6_OffsetsAccumulate ==
  Loaded =>
    LET properties == logged.properties
        map == CreatePropertyMap(properties)
    IN /\ \A k \in 1..Len(properties) :
            \E e \in 1..Len(map) :
              /\ map[e].name = KeyOf(properties[k].name)
              /\ ~map[e].isNumber
              /\ map[e].offset = WidthsBefore(properties, k)
              /\ map[e].size = TypeWidth(properties[k].type.s)
       /\ VertexSize(map) = WidthsBefore(properties, Len(properties) + 1)

(***************************************************************************)
(* The properties checked of processVertex (SpecVertex).                   *)
(***************************************************************************)
\* C7: on each axis the scale is exp(raw scale_i) whenever the vertex has
\* the raw scale property with a numeric value, a raw 0 included; 0.01 is
\* used only when the property is absent; the scale is strictly positive.
C7_ScaleIsExpOfRaw ==
  splat.done =>
    \A i \in 1..3 :
      /\ (Has(vertex, ScaleNames[i][1]) /\ ~IsNaN(Get(vertex, ScaleNames[i][1])))
           => splat.value.scale[i] = MathExp(Get(vertex, ScaleNames[i][1]))
      /\ ~IsNaN(splat.value.scale[i]) /\ View(splat.value.scale[i]).sign = 1

\* C8: whatever opacity and alpha the raw vertex holds (absent, NaN or any
\* number), the opacity of the splat is a number of [0, 1]: not undefined,
\* not NaN, not negative, not above 1.
C8_OpacityInUnitInterval ==
  splat.done =>
    /\ splat.value.opacity # Undefined
    /\ ~IsNaN(splat.value.opacity)
    /\ View(splat.value.opacity).sign >= 0
    /\ ~View(splat.value.opacity).gt1

\* an alpha above 1 with no opacity, brought down to 1
C8_Witness ==
  /\ splat.done
  /\ ~Has(vertex, S_opacity)
  /\ Has(vertex, S_alpha)
  /\ ~IsNaN(Get(vertex, S_alpha))
  /\ View(Get(vertex, S_alpha)).gt1
  /\ splat.value.opacity = Lit("1")

\* C9: whenever the vertex has opacity with a numeric value the opacity of
\* the splat is sigmoid(raw), whatever alpha is, also when sigmoid(raw) is
\* exactly 0.
C9_OpacityIsSigmoidOfRaw ==
  (splat.done /\ Has(vertex, S_opacity) /\ ~IsNaN(Get(vertex, S_opacity)))
  => splat.value.opacity = Sigmoid(Get(vertex, S_opacity))

\* f_dc_k as kept: a component that is absent, NaN or zero counts as 0.0
KeptDc(v, name) == IF Truthy(Get(v, name)) THEN Get(v, name) ELSE Lit("0.0")

AllPresent(v, names) == \A k \in 1..Len(names) : Has(v, names[k])

RECURSIVE Gcd(_, _)
Gcd(a, b) == IF b = 0 THEN a ELSE Gcd(b, a % b)

Abs(n) == IF n < 0 THEN 0 - n ELSE n

NoMonomial == [n |-> 0, d |-> 0, k |-> 0]

Monomial(n, d, k) ==
  IF d = 0 THEN NoMonomial
  ELSE LET g == Gcd(Abs(n), Abs(d))
           sgn == IF d < 0 THEN 0 - 1 ELSE 1
       IN [n |-> sgn * (n \div g), d |-> sgn * (d \div g), k |-> IF n = 0 THEN 0 ELSE k]

RealOfLit(s) ==
  CASE s \in {"0", "0.0"} -> Monomial(0, 1, 0)
    [] s \in {"1", "1.0"} -> Monomial(1, 1, 0)
    [] s = "0.5" -> Monomial(1, 2, 0)
    [] s = "-0.5" -> Monomial(0 - 1, 2, 0)
    [] s = "255.0" -> Monomial(255, 1, 0)
    [] s = "0.28209479177387814" -> Monomial(1, 1, 1)
    [] OTHER -> NoMonomial

RealArith(op, a, b) ==
  IF a.d = 0 \/ b.d = 0 THEN NoMonomial
  ELSE CASE op = "*" -> Monomial(a.n * b.n, a.d * b.d, a.k + b.k)
         [] op = "/" -> Monomial(a.n * b.d, a.d * b.n, a.k - b.k)
         [] op \in {"+", "-"} ->
              IF a.n # 0 /\ b.n # 0 /\ a.k # b.k THEN NoMonomial
              ELSE Monomial(a.n * b.d + (IF op = "+" THEN 1 ELSE 0 - 1) * b.n * a.d,
                            a.d * b.d, IF a.n # 0 THEN a.k ELSE b.k)

RECURSIVE Real(_)
Real(v) ==
  CASE v.t = "lit" -> RealOfLit(v.s)
    [] v.t \in {"uint8", "uint16"} -> Monomial(IntegerOf(v.b, FALSE), 1, 0)
    [] v.t \in {"int8", "int16"} -> Monomial(IntegerOf(v.b, TRUE), 1, 0)
    [] v.t = "arith" -> RealArith(v.op, Real(v.a), Real(v.b))
    [] v.t = "fround" -> Real(v.of)
    [] OTHER -> NoMonomial

(***************************************************************************)
(* The properties checked of createGaussianSplatMesh.                      *)
(***************************************************************************)
ColourNames == <<S_red, S_green, S_blue>>

DcNames == <<S_f_dc_0, S_f_dc_1, S_f_dc_2>>

\* C11: the colour attribute of every splat is 0.5 + 0.28209479177387814 * dc
\* of its sh_dc, whichever way sh_dc was made; for a vertex that has no f_dc
\* and has uchar red, green, blue = (R, G, B) it is (R/255, G/255, B/255).
C11_DisplayRgbOfColorDc ==
  points.done =>
    \A c \in 1..3 :
      /\ points.mesh.attributes.color[c] =
           Fround(Arith("+", Lit("0.5"),
                        Arith("*", Lit("0.28209479177387814"), splat.value.sh_dc[c])))
      /\ (/\ \A k \in 1..3 : ~Has(vertex, DcNames[k])
          /\ \A k \in 1..3 : Get(vertex, ColourNames[k]).t = "uint8")
         => Real(points.mesh.attributes.color[c]) =
              Monomial(IntegerOf(Get(vertex, ColourNames[c]).b, FALSE), 255, 0)

\* red, green, blue = (255, 0, 0) and no f_dc: the colour attribute is [1, 0, 0]
C11_Witness ==
  /\ points.done
  /\ \A k \in 1..3 : ~Has(vertex, DcNames[k])
  /\ Get(vertex, S_red) = Bin("uint8", <<255>>)
  /\ Get(vertex, S_green) = Bin("uint8", <<0>>)
  /\ Get(vertex, S_blue) = Bin("uint8", <<0>>)
  /\ Real(points.mesh.attributes.color[1]) = Monomial(1, 1, 0)
  /\ Real(points.mesh.attributes.color[2]) = Monomial(0, 1, 0)
  /\ Real(points.mesh.attributes.color[3]) = Monomial(0, 1, 0)

\* the attributes of the mesh with their components and, of splat v, the
\* values they hold: sh_rest group g holds rest coefficients 3g..3g+2
MeshAttributes(mesh) ==
  << <<mesh.attributes.position, 3>>, <<mesh.attributes.scale, 3>>,
     <<mesh.attributes.rotation, 4>>, <<mesh.attributes.opacity, 1>>,
     <<mesh.attributes.sh_dc, 3>>, <<mesh.attributes.color, 3>> >>
  \o [g \in 1..9 |-> <<mesh.attributes.sh_rest[g], 3>>]

SplatValues(v) ==
  << v.position, v.scale, v.rotation, <<v.opacity>>, v.sh_dc,
     [c \in 1..3 |-> Arith("+", Lit("0.5"),
                           Arith("*", Lit("0.28209479177387814"), v.sh_dc[c]))] >>
  \o [g \in 1..9 |-> [c \in 1..3 |-> v.sh_rest[3 * (g - 1) + c]]]

\* C12: the mesh of n splats has, for every attribute, an array of
\* n * components values in which index i*components + c holds component c of
\* splat i (as a float32), sh_rest group g holding coefficients 3g..3g+2, and
\* userData.vertexCount = n.
C12_AttributesTransposeSplats ==
  promise.state = "fulfilled" =>
    LET mesh == promise.mesh
        n == Len(mesh.vertices)
        attrs == MeshAttributes(mesh)
    IN /\ mesh.vertexCount = n
       /\ \A a \in 1..Len(attrs) :
            /\ Len(attrs[a][1]) = n * attrs[a][2]
            /\ \A i \in 0..(n - 1) : \A c \in 0..(attrs[a][2] - 1) :
                 attrs[a][1][i * attrs[a][2] + c + 1] =
                   Fround(SplatValues(mesh.vertices[i + 1])[a][c + 1])

\* two splats with f_rest_0..26 all different: the second one's f_rest_26 is
\* the last value of the last group
C12_Witness ==
  /\ promise.state = "fulfilled"
  /\ file.cfg.props = RestPropList
  /\ Len(promise.mesh.vertices) = 2
  /\ promise.mesh.attributes.sh_rest[9][6] = Bin("uint8", <<BodyByte(54)>>)
  /\ promise.mesh.attributes.sh_rest[1][1] = Bin("uint8", <<BodyByte(1)>>)
  /\ Cardinality({promise.mesh.vertices[i].sh_rest[k] : i \in 1..2, k \in 1..27}) = 54

\* v is the float32 value w: the same term, or the literal 0 for a +0 written
IsWritten(v, w) ==
  v = w \/ (w = Bin("float32", <<0, 0, 0, 0>>) /\ v \in {Lit("0"), Lit("0.0")})

\* C13: a little-endian file written from rows of float32 values x, y, z,
\* rot_0..3, f_rest_0..2 loads as splats whose position, rotation and rest
\* coefficients are exactly the values written, row by row.
C13_WrittenValuesReadBack ==
  (Loaded /\ file.written # <<>> /\ file.cfg.props = WrittenPropList)
  => /\ promise.state = "fulfilled"
     /\ Len(promise.mesh.vertices) = Len(file.written)
     /\ \A i \in 1..Len(file.written) :
          LET row == file.written[i]
              v == promise.mesh.vertices[i]
          IN /\ \A c \in 1..3 : IsWritten(v.position[c], row[c])
             /\ \A c \in 1..4 : IsWritten(v.rotation[c], row[3 + c])
             /\ \A c \in 1..3 : IsWritten(v.sh_rest[c], row[7 + c])

\* C14: the file of the 12-Gaussian generator declares 12 vertices of 17
\* float properties (68 bytes a record), holds 12 * 68 bytes after a header
\* whose length the loader finds, and loads as 12 splats, each of scale
\* exp(0.1) on the three axes and at the ring position generated for it, in
\* the order of generation.
C14_FixtureLoads ==
  (Loaded /\ file.cfg.props = FixturePropList)
  => /\ logged.vertexCount = IntOf(12)
     /\ Len(logged.properties) = 17
     /\ \A k \in 1..Len(logged.properties) : logged.properties[k].type = Str(S_float)
     /\ VertexSize(CreatePropertyMap(logged.properties)) = 68
     /\ Len(file.body) = 12 * 68
     /\ logged.headerLength = Len(file.header)
     /\ logged.headerLength + 12 * 68 = Len(buffer)
     /\ promise.state = "fulfilled"
     /\ Len(promise.mesh.vertices) = 12
     /\ \A i \in 1..12 :
          LET v == promise.mesh.vertices[i]
              ring == IF i <= 6 THEN 1 ELSE 2
              point == RingPoint(ring, (i - 1) % 6)
          IN /\ \A c \in 1..3 : v.scale[c] = [t |-> "exp", of |-> Float32Of("0.1")]
             /\ IsWritten(v.position[1], point[1])
             /\ IsWritten(v.position[2], point[2])
             /\ v.position[3] = Float32Of(IF ring = 1 THEN "1.0" ELSE "-1.0")

\* the generated file, loaded: its seventh splat is the first of the second ring
C14_Witness ==
  /\ promise.state = "fulfilled"
  /\ file = GeneratePlyFile
  /\ Len(promise.mesh.vertices) = 12
  /\ promise.mesh.vertices[7].position[1] = Bin("float32", <<63, 49, 92, 172>>)
  /\ promise.mesh.vertices[12].position[3] = Float32Of("-1.0")

\* the quaternion of splat i as the viewer reads the rotation attribute:
\* quaternion_to_mat3 takes q.x, q.y, q.z, q.w of the vec4, and object mode
\* makes new THREE.Quaternion(r[i4], r[i4 + 1], r[i4 + 2], r[i4 + 3]), whose
\* parameters are x, y, z, w
QuaternionOf(rotations, i) ==
  [x |-> rotations[4 * (i - 1) + 1], y |-> rotations[4 * (i - 1) + 2],
   z |-> rotations[4 * (i - 1) + 3], w |-> rotations[4 * (i - 1) + 4]]

\* C24: the rotation the generator writes for every Gaussian (rot_0..rot_3 =
\* 1, 0, 0, 0) is the identity quaternion, w = 1 and x = y = z = 0, in the
\* order of components the loader, the shaders and object mode read it in.
C24_FixtureRotationIsIdentity ==
  (promise.state = "fulfilled" /\ file = GeneratePlyFile)
  => \A i \in 1..Len(promise.mesh.vertices) :
       QuaternionOf(promise.mesh.attributes.rotation, i)
         = [x |-> Float32Of("0.0"), y |-> Float32Of("0.0"), z |-> Float32Of("0.0"),
            w |-> Float32Of("1.0")]

\* the rows of an ascii file that are not blank, in order
WrittenRows == SelectSeq(file.written, LAMBDA row : row # <<>>)

\* number k of a row as the loader reads it, undefined past the row's end
RowValue(row, k) == IF k <= Len(row) THEN ParseFloat(row[k]) ELSE Undefined

\* C15: in the ascii format each of the first vertexCount non-blank lines
\* yields one splat, a line of one or two numbers too: the numbers it has
\* are taken in property order, the fields it lacks take the defaults, and
\* the splats are as many as min(vertexCount, number of non-blank lines).
C15_EveryAsciiLineYieldsSplat ==
  (Loaded /\ file.cfg.fmt = "ascii" /\ file.written # <<>>)
  => /\ promise.state = "fulfilled"
     /\ Len(promise.mesh.vertices)
          = (IF DeclaredCount < Len(WrittenRows) THEN DeclaredCount ELSE Len(WrittenRows))
     /\ \A i \in 1..Len(promise.mesh.vertices) :
          /\ promise.mesh.vertices[i].position
               = [c \in 1..3 |-> Or(RowValue(WrittenRows[i], c), Lit("0"))]
          /\ file.cfg.props = WrittenPropList
             => promise.mesh.vertices[i].rotation
                  = [c \in 1..4 |-> RowValue(WrittenRows[i], 3 + c)]

\* the DataView kind of a declared type (float32 for one the loader does not name)
KindOfType(word) ==
  CASE word = S_double -> "float64"
    [] word = S_int -> "int32"
    [] word = S_uint -> "uint32"
    [] word = S_short -> "int16"
    [] word = S_ushort -> "uint16"
    [] word = S_char -> "int8"
    [] word = S_uchar -> "uint8"
    [] OTHER -> "float32"

\* the bytes of property k of record i where the loader reads them, in the
\* order the file has them
BytesRead(i, k) ==
  SubSeq(buffer,
         logged.headerLength + (i - 1) * RecordSize
           + WidthsBefore(logged.properties, k) + 1,
         logged.headerLength + (i - 1) * RecordSize
           + WidthsBefore(logged.properties, k + 1))

\* the number those bytes are in the byte order of the format line
DeclaredOrderValue(i, k) ==
  Bin(KindOfType(DeclaredProperties[k][1]),
      IF file.cfg.fmt = "little" THEN Reverse(BytesRead(i, k)) ELSE BytesRead(i, k))

PositionNames == <<S_x, S_y, S_z>>

\* the lists whose properties have distinct names, none of them vertexSize
DistinctPropLists == {2, 3, 4, 7, RestPropList, IntegerPropList}

\* C16: every read of a binary load takes its bytes in the byte order the
\* format line declares, least significant byte first for
\* binary_little_endian and most significant first for binary_big_endian:
\* a float, a double, an int, a uint, a short, a ushort or a type the loader
\* does not name, of every record; a read of one byte is the byte.
C16_ReadsFollowFormatLine ==
  (promise.state = "fulfilled" /\ BinaryFile /\ file.cfg.props \in DistinctPropLists)
  => \A i \in 1..Len(promise.mesh.vertices) :
       \A k \in 1..Len(DeclaredProperties) :
         /\ \A c \in 1..3 :
              DeclaredProperties[k][2] = PositionNames[c]
              => promise.mesh.vertices[i].position[c]
                   = Or(DeclaredOrderValue(i, k), Lit("0"))
         /\ file.cfg.props = RestPropList
            => promise.mesh.vertices[i].sh_rest[k]
                 = Or(Bin("uint8", BytesRead(i, k)), Lit("0.0"))

\* a big-endian and a little-endian load of two records with a short, and of
\* the integer types, whose bytes differ in the two orders
C16_Witness ==
  /\ promise.state = "fulfilled"
  /\ BinaryFile
  /\ Len(promise.mesh.vertices) = 2
  /\ \/ /\ file.cfg.props = 4
        /\ file.cfg.fmt = "big"
        /\ file.cfg.eol = "lf"
        /\ file.cfg.noise = "none"
        /\ BytesRead(2, 3) # Reverse(BytesRead(2, 3))
        /\ promise.mesh.vertices[2].position[2] = Bin("int16", BytesRead(2, 3))
     \/ /\ file.cfg.props = IntegerPropList
        /\ file.cfg.fmt = "little"
        /\ promise.mesh.vertices[1].position[1] = Bin("int32", Reverse(BytesRead(1, 1)))
        /\ promise.mesh.vertices[2].position[3] = Bin("uint16", Reverse(BytesRead(2, 3)))

RotationNames == <<S_rot_0, S_rot_1, S_rot_2, S_rot_3>>

\* the raw vertex of record i (from 0) as the loader read it
RawVertex(i) ==
  ReadRecord(buffer, logged.headerLength + i * RecordSize,
             CreatePropertyMap(logged.properties), 1, littleEndian, <<>>).vertex

\* the raw vertex with the rotation (1, 0, 0, 0) in place of its own
WithUnitRotation(raw) ==
  Put(Put(Put(Put(raw, S_rot_0, Bin("float32", <<63, 128, 0, 0>>)),
              S_rot_1, Bin("float32", <<0, 0, 0, 0>>)),
          S_rot_2, Bin("float32", <<0, 0, 0, 0>>)),
      S_rot_3, Bin("float32", <<0, 0, 0, 0>>))

\* some component of the rotation of the raw vertex is absent or NaN
RotationMissing(raw) == \E c \in 1..4 : IsNaN(Get(raw, RotationNames[c]))

\* C17: a vertex whose rot_0..rot_3 are absent or NaN does not fail the load
\* of a file that holds the records its header declares: the mesh holds its
\* splat, the rotation of the splat is what was read
\* (NaN in the rotation attribute for a component absent or NaN, no unit
\* quaternion in its place, the other components as read), and every other
\* attribute of every splat is what it is with a valid rotation.
C17_MissingRotationIsKept ==
  (/\ Loaded
   /\ BinaryFile
   /\ file.cfg.props \in DistinctPropLists \cup {WrittenPropList}
   /\ file.cfg.end
   /\ ~file.cfg.face
   /\ DeclaredCount >= 0
   /\ logged.headerLength + DeclaredCount * RecordSize <= Len(buffer))
  => /\ promise.state = "fulfilled"
     /\ Len(promise.mesh.vertices) = DeclaredCount
     /\ Len(promise.mesh.attributes.rotation) = 4 * DeclaredCount
     /\ \A i \in 1..DeclaredCount :
          /\ promise.mesh.vertices[i]
               = [ProcessVertex(WithUnitRotation(RawVertex(i - 1)))
                    EXCEPT !.rotation = promise.mesh.vertices[i].rotation]
          /\ \A c \in 1..4 :
               /\ promise.mesh.vertices[i].rotation[c] = Get(RawVertex(i - 1), RotationNames[c])
               /\ promise.mesh.attributes.rotation[4 * (i - 1) + c]
                    = (IF IsNaN(Get(RawVertex(i - 1), RotationNames[c])) THEN NaNV
                       ELSE Get(RawVertex(i - 1), RotationNames[c]))

\* two loaded records, the first with a NaN among the components of its
\* rotation and a number among them, the second with another rotation
C17_Witness ==
  /\ promise.state = "fulfilled"
  /\ file.cfg.props = WrittenPropList
  /\ Len(promise.mesh.vertices) = 2
  /\ RotationMissing(RawVertex(0))
  /\ \E c \in 1..4 : ~IsNaN(Get(RawVertex(0), RotationNames[c]))
  /\ promise.mesh.vertices[1].rotation # promise.mesh.vertices[2].rotation
  /\ promise.mesh.attributes.rotation[1] = NaNV

(***************************************************************************)
(* The properties checked of the command socket (SpecSocket).              *)
(***************************************************************************)
\* the k-th message received is a forward or a turn command
IsCommand(k) ==
  /\ ~Throws(received[k].data)
  /\ JsonParse(received[k].data).type \in {"forward", "turn"}

\* the places in `sent` of the images sent by the timeout of message k
RepliesTo(k) == {j \in 1..Len(sent) : sent[j].command = k}

\* onmessage has just handled a message: the message
Handled == received'[Len(received')].data

\* every message sent is an image, no command has two of them, and the
\* images are in the order of their commands
OneReplyInOrder ==
  /\ \A j \in 1..Len(sent) : sent[j].type = "image"
  /\ \A k \in 1..Len(received) : IsCommand(k) => Cardinality(RepliesTo(k)) <= 1
  /\ \A i, j \in 1..Len(sent) : i < j => sent[i].command < sent[j].command

\* text that is not JSON sets no timeout and leaves the robot as it was
InvalidJsonIgnored ==
  (Len(received') = Len(received) + 1 /\ JsonParse(Handled).threw)
  => /\ robot' = robot
     /\ timers' = timers
     /\ sent' = sent
     /\ \A k \in 1..Len(received') :
          JsonParse(received'[k].data).threw => RepliesTo(k)' = {}

\* C18: while the socket stays open, every forward or turn command received
\* is in the end answered by exactly one {type: 'image'} message, the answers
\* in the order of the commands; a message that is not valid JSON gets no
\* answer and leaves the robot unchanged.
C18_CommandRelay ==
  /\ []OneReplyInOrder
  /\ [][InvalidJsonIgnored]_vars
  /\ \A k \in 1..MaxEvents :
       (Len(received) >= k /\ IsCommand(k))
         ~> (readyState = "closed" \/ Cardinality(RepliesTo(k)) = 1)

\* two commands answered in their order on a socket still open, after text
\* that was not JSON and got no answer
C18_Witness ==
  /\ readyState = "open"
  /\ Len(received) = 3
  /\ JsonParse(received[1].data).threw
  /\ IsCommand(2)
  /\ IsCommand(3)
  /\ Len(sent) = 2
  /\ sent[1].command = 2
  /\ sent[2].command = 3
  /\ timers = <<>>

\* C19: the image sent for a command shows the robot as it was right after
\* that command, whatever commands and key presses were handled before the
\* timeout of the command ran.
C19_ReplyShowsPoseAfterCommand ==
  \A j \in 1..Len(sent) : sent[j].data = Render(received[sent[j].command].after)

\* C20: a turn command of numeric value v adds v to the rotation, for v
\* positive, negative or zero, and leaves the position; a forward command
\* subtracts 0.3 * sin(rotation) from x and 0.3 * cos(rotation) from z and
\* leaves y and the rotation; a message of any other type leaves both.
C20_CommandsMoveRobot ==
  [][Len(received') = Len(received) + 1
     => IF ~Throws(Handled) /\ JsonParse(Handled).type = "turn"
        THEN ~JsonParse(Handled).value.nan
             => /\ robot'.rotation
                     = [nan |-> robot.rotation.nan,
                        v |-> IF robot.rotation.nan THEN 0
                              ELSE robot.rotation.v + JsonParse(Handled).value.v]
                /\ robot'.position = robot.position
        ELSE IF ~Throws(Handled) /\ JsonParse(Handled).type = "forward"
        THEN /\ robot'.position.x
                  = robot.position.x
                    \o <<[op |-> "-", distance |-> "0.3", fn |-> "sin",
                          rotation |-> robot.rotation]>>
             /\ robot'.position.z
                  = robot.position.z
                    \o <<[op |-> "-", distance |-> "0.3", fn |-> "cos",
                          rotation |-> robot.rotation]>>
             /\ robot'.position.y = robot.position.y
             /\ robot'.rotation = robot.rotation
        ELSE robot' = robot]_vars

\* a turn of a negative value, then a forward along the new heading, then a
\* message of another type
C20_Witness ==
  /\ Len(received) = 3
  /\ JsonParse(received[1].data) = Parsed("turn", Angle(0 - 2))
  /\ JsonParse(received[2].data).type = "forward"
  /\ JsonParse(received[3].data).type = "stop"
  /\ robot.rotation = Angle(0 - 2)
  /\ Len(robot.position.x) = 1
  /\ robot.position.x[1].rotation = Angle(0 - 2)

(***************************************************************************)
(* The properties checked of loadPLY (Spec).                               *)
(***************************************************************************)
\* C21: loadPLY tries the Gaussian decode first and starts the fallback only
\* after that decode has failed, once at most; its promise settles once and
\* for all: with the Gaussian mesh when the first decode succeeds, with the
\* standard_ply points when only the fallback succeeds, with a rejection when
\* both fail.
C21_FallbackOnlyAfterFailure ==
  /\ [](/\ loadPLY.fallbacks <= 1
        /\ loadPLY.stage = "fallback"
           => (promise.state = "rejected" /\ loadPLY.fallbacks = 1)
        /\ promise.state = "pending"
           => (loadPLY.state = "pending" /\ loadPLY.stage = "gaussian")
        /\ promise.state = "fulfilled"
           => (loadPLY.stage = "gaussian"
               /\ loadPLY.state \in {"pending", "resolved"}
               /\ loadPLY.state = "resolved"
                  => loadPLY.value = [type |-> "gaussian", mesh |-> promise.mesh])
        /\ (promise.state = "rejected" /\ loadPLY.state = "resolved")
           => (loadPLY.stage = "fallback" /\ loadPLY.value = [type |-> "standard_ply"])
        /\ loadPLY.state = "rejected"
           => (promise.state = "rejected" /\ loadPLY.stage = "fallback"))
  /\ [][loadPLY.state # "pending" => loadPLY' = loadPLY]_vars

\* a truncated file: the Gaussian decode threw, the fallback ran and gave
\* the standard points
C21_Witness ==
  /\ promise.error = "RangeError"
  /\ loadPLY.state = "resolved"
  /\ loadPLY.stage = "fallback"
  /\ loadPLY.fallbacks = 1
  /\ loadPLY.value = [type |-> "standard_ply"]

(***************************************************************************)
(* The properties checked of the shader's colour (SpecShader).             *)
(***************************************************************************)
\* the terms of the expansion for a direction, in thousandths: the factor of
\* rest coefficient 3(g-1)+c-1 in channel c is ShFactors(dir)[g]
ShFactors(dir) ==
  << (0 - 489 * dir[2]) \div 1000,
     (489 * dir[3]) \div 1000,
     (0 - 489 * dir[1]) \div 1000,
     (1093 * ((dir[1] * dir[2]) \div 1000)) \div 1000,
     (0 - 1093 * ((dir[2] * dir[3]) \div 1000)) \div 1000,
     (946 * ((2 * dir[3] * dir[3] - dir[1] * dir[1] - dir[2] * dir[2]) \div 1000)) \div 1000,
     (0 - 1093 * ((dir[1] * dir[3]) \div 1000)) \div 1000,
     (546 * ((dir[1] * dir[1] - dir[2] * dir[2]) \div 1000)) \div 1000 >>

RECURSIVE ShSum(_, _, _, _)
\* the sum of the terms of groups 1..n in channel c
ShSum(dir, rest, c, n) ==
  IF n = 0 THEN 0
  ELSE ShSum(dir, rest, c, n - 1) + (ShFactors(dir)[n] * rest[n][c]) \div 1000

\* how many groups of three rest coefficients a degree uses
GroupsOfDegree(degree) == IF degree < 1 THEN 0 ELSE IF degree < 2 THEN 3 ELSE 8

\* C22: the colour is the DC term plus the terms of the rest coefficients up
\* to the requested degree (none for degree 0, coefficients 0..8 for degree
\* 1, 0..23 for degree 2 and more), returned as it is, not clamped to [0, 1],
\* for every degree and in both materials.
C22_ColourIsUnclampedSum ==
  shader.done
  => \A c \in 1..3 :
       shader.color[c]
         = 500 + (282 * shader.dc[c]) \div 1000
           + ShSum(shader.dir, shader.rest, c, GroupsOfDegree(shader.degree))

(***************************************************************************)
(* The properties checked of the page (SpecPage).                          *)
(***************************************************************************)
\* C23: whenever a handler has changed the pose of the robot (a key, a
\* command of the socket, the reset button, the centring on a newly loaded
\* scene), the frame it renders is taken from the robot's position plus the
\* offset (0, 1.5, 3) turned about Y by the robot's rotation.
C23_CameraFollowsRobot ==
  [][robot' # robot
     => /\ page'.frame.rendered
        /\ page'.frame.robot = robot'
        /\ page'.frame.camera = CameraBehind(robot')]_vars

\* the loads that gave a cloud, and whether every load started has settled
ResolvedLoads == {i \in 1..Len(page.loads) : page.loads[i] \in {"gaussian", "standard_ply"}}
AllLoadsSettled == \A i \in 1..Len(page.loads) : page.loads[i] # "pending"

\* C28: when two loads overlap, A chosen before B, and both have given their
\* cloud, currentPointCloud and the Points of the scene are B's, whichever
\* of the two finished first.
C28_LastChosenFileWins ==
  (Len(page.loads) >= 2 /\ AllLoadsSettled /\ ResolvedLoads = 1..Len(page.loads))
  => /\ page.currentPointCloud = Len(page.loads)
     /\ page.scene.points \subseteq {Len(page.loads)}

\* C29: the scene holds at most one Points and at most one object_mode
\* group, never both; the Points in the scene is currentPointCloud; and a
\* load that fails leaves currentPointCloud, the scene and the robot as they
\* were.
C29_OneCloudInScene ==
  /\ [](/\ Cardinality(page.scene.points) <= 1
        /\ Cardinality(page.scene.groups) <= 1
        /\ page.scene.points = {} \/ page.scene.groups = {}
        /\ \A c \in page.scene.points : c = page.currentPointCloud /\ c # 0)
  /\ [][\A i \in 1..Len(page.loads) :
          (page.loads[i] = "pending" /\ page'.loads[i] = "rejected")
          => /\ page'.currentPointCloud = page.currentPointCloud
             /\ page'.scene = page.scene
             /\ robot' = robot]_vars

\* a second load has failed while the first one's cloud is shown in object
\* mode
C29_Witness ==
  /\ Len(page.loads) = 2
  /\ page.loads[1] \in {"gaussian", "standard_ply"}
  /\ page.loads[2] = "rejected"
  /\ page.currentPointCloud = 1
  /\ page.scene.points = {}
  /\ Cardinality(page.scene.groups) = 1

(***************************************************************************)
(* The properties checked of the robot under commands and keys             *)
(* (SpecSocket).                                                           *)
(***************************************************************************)
\* the angles a coordinate was computed with
AnglesOf(coordinate) == {coordinate[k].rotation : k \in 1..Len(coordinate)}

\* C25: whatever messages that parse as JSON have arrived, a `turn` without
\* a value or with one that is no number among them, and whatever keys were
\* pressed in between, the rotation and the position of the robot are
\* numbers, never NaN.
C25_PoseStaysFinite ==
  /\ ~robot.rotation.nan
  /\ \A a \in AnglesOf(robot.position.x) \cup AnglesOf(robot.position.z) : ~a.nan

(***************************************************************************)
(* The properties checked of KeyboardControls (SpecControls).              *)
(***************************************************************************)
\* C26: once destroy() has been called, no keydown, keyup or blur changes
\* the robot, the set of keys held or what is rendered; while the controls
\* are disabled no keydown moves the robot; and the set of keys is empty
\* right after disable().
C26_DestroyedControlsAreSilent ==
  /\ [][(page.controls.destroyed /\ keydowns' # keydowns)
        => (robot' = robot /\ canvas' = canvas /\ page'.frame = page.frame)]_vars
  /\ [][(page.controls.destroyed /\ page'.controls = page.controls) => keys' = keys]_vars
  /\ [][(~page.controls.isEnabled /\ keydowns' # keydowns) => robot' = robot]_vars
  /\ [][(page.controls.isEnabled /\ ~page'.controls.isEnabled) => keys' = {}]_vars

(***************************************************************************)
(* The properties checked of a loader used again (SpecReuse).              *)
(***************************************************************************)
\* what a loader just constructed makes of the buffer
FreshParse == Parse(buffer, TRUE)

\* C30: what a loader makes of a buffer is what a loader just constructed
\* makes of it, whatever it has parsed before; and the byte order it reads a
\* file with a format line in is the one that line gives, not the one of the
\* file before.
C30_ParseIgnoresEarlierFiles ==
  [][(promise.state = "pending" /\ promise'.state # "pending"
      /\ promise'.error # "Failed to read file")
     => /\ promise' = (IF FreshParse.threw THEN Rejected("RangeError")
                       ELSE Fulfilled(FreshParse.mesh))
        /\ logged' = FreshParse.header
        /\ file.cfg.fmt # "none" => littleEndian' = FreshParse.littleEndian]_vars

\* a file without a format line and with records after its header has been
\* parsed by a loader that a file before had left reading big-endian
C30_Witness ==
  /\ promise.state = "fulfilled"
  /\ ~littleEndian
  /\ file.cfg.fmt = "none"
  /\ file.cfg.end
  /\ file.cfg.count > 0
  /\ Len(file.body) > 0

(***************************************************************************)
(* The properties checked of the command server (SpecRelay).               *)
(***************************************************************************)
\* C27: a connection that has closed has no periodic command timer
\* scheduled, whether it closed before or after the 2-second timeout ran;
\* and the server calls send only on a connection whose readyState is OPEN.
C27_ClosedConnectionHasNoTimer ==
  \A c \in 1..Len(server) :
    /\ server[c].readyState = "CLOSED" => ~server[c].interval
    /\ \A k \in 1..Len(server[c].sent) : server[c].sent[k].readyState = "OPEN"

=============================================================================
